---------------------------- MODULE Spec2Model ----------------------------
(***************************************************************************)
(* The persistence subsystem of the 7-Ply bot: SecureFileHandler            *)
(* (src/utils/secure_files.py), a whole-document JSON store with an         *)
(* advisory lock file, timestamped backups and an atomic-rename write.      *)
(*                                                                          *)
(* The file system is the shared state.  Every system call of safe_load     *)
(* and safe_save is one step of the calling process, so that calls of       *)
(* several processes interleave as they do on a real file system.           *)
(*                                                                          *)
(* The cache of the bot: BotCache (src/utils/cache.py), three in-memory     *)
(* maps behind one lock, and the two maintenance tasks of src/bot.py that   *)
(* sweep it.  Every critical section of a cache call is one step of the     *)
(* calling thread.                                                          *)
(*                                                                          *)
(* The ranking caller: RankingSystem (src/cogs/ranking.py), which keeps the *)
(* document in memory, looks users up through the cache and saves the       *)
(* document after each change.  Its handlers run one after the other on the *)
(* event loop; each is one step.                                            *)
(***************************************************************************)
EXTENDS Integers, Sequences, FiniteSets, TLC

(***************************************************************************)
(* JSON values.  A value is described by its shape:                         *)
(*   int   a number written with n digits                                   *)
(*   str   a string of n ASCII letters                                      *)
(*   list  a list of n items, each equal to sub[1]                          *)
(*   dict  an object of n distinct keys of klen letters each, every key     *)
(*         mapped to sub[1]                                                 *)
(*   nest  n lists of one item each, one inside the other, around sub[1]    *)
(*         (n >= 1): [[...[ sub[1] ]...]]                                   *)
(* The shape is all that validate_json_data, json.dump and json.load look   *)
(* at, and it lets documents at the very limits (10,001 keys, 100,001       *)
(* characters, depth 51) be written down.                                   *)
(***************************************************************************)
JInt(digits) == [t |-> "int", n |-> digits, klen |-> 0, sub |-> <<>>]
JStr(len) == [t |-> "str", n |-> len, klen |-> 0, sub |-> <<>>]
JList(count, item) ==
    [t |-> "list", n |-> count, klen |-> 0,
     sub |-> IF count = 0 THEN <<>> ELSE <<item>>]
JDict(count, keylen, val) ==
    [t |-> "dict", n |-> count, klen |-> IF count = 0 THEN 0 ELSE keylen,
     sub |-> IF count = 0 THEN <<>> ELSE <<val>>]

JNest(k, v) == [t |-> "nest", n |-> k, klen |-> 0, sub |-> <<v>>]

(***************************************************************************)
(* The limits of validate_json_data and safe_load.                          *)
(***************************************************************************)
MAX_DEPTH == 50
MAX_KEYS == 10000
MAX_KEY_LEN == 1000
MAX_LIST == 10000
MAX_STR == 100000
MAX_TOTAL == 10 * 1024 * 1024
MAX_FILE == 50 * 1024 * 1024
STALE_AFTER == 30
KEEP_BACKUPS == 10

(***************************************************************************)
(* len(json.dumps(v)): the compact form, separators ", " and ": ".          *)
(***************************************************************************)
RECURSIVE DumpsLen(_)
DumpsLen(v) ==
    CASE v.t = "int" -> v.n
      [] v.t = "str" -> v.n + 2
      [] v.t = "list" ->
            IF v.n = 0 THEN 2
            ELSE 2 + v.n * DumpsLen(v.sub[1]) + 2 * (v.n - 1)
      [] v.t = "dict" ->
            IF v.n = 0 THEN 2
            ELSE 2 + v.n * (v.klen + 2 + 2 + DumpsLen(v.sub[1])) + 2 * (v.n - 1)
      [] v.t = "nest" -> 2 * v.n + DumpsLen(v.sub[1])

(***************************************************************************)
(* The number of bytes json.dump(v, f, indent=2, ensure_ascii=False)        *)
(* writes for a value that starts at nesting level `level`: every item of   *)
(* a non-empty container goes on a line of its own, indented by two         *)
(* spaces per level.  The list at level i of a nest adds "[", a line break, *)
(* 2(i+1) spaces, then after its item a line break, 2i spaces and "]".      *)
(***************************************************************************)
RECURSIVE DumpLen(_, _)
DumpLen(v, level) ==
    CASE v.t = "int" -> v.n
      [] v.t = "str" -> v.n + 2
      [] v.t = "list" ->
            IF v.n = 0 THEN 2
            ELSE 1 + v.n * (1 + 2 * (level + 1) + DumpLen(v.sub[1], level + 1))
                   + (v.n - 1) + 1 + 2 * level + 1
      [] v.t = "dict" ->
            IF v.n = 0 THEN 2
            ELSE 1 + v.n * (1 + 2 * (level + 1) + v.klen + 2 + 2
                            + DumpLen(v.sub[1], level + 1))
                   + (v.n - 1) + 1 + 2 * level + 1
      [] v.t = "nest" ->
            6 * v.n + 4 * (v.n * level + (v.n * (v.n - 1)) \div 2)
            + DumpLen(v.sub[1], level + v.n)

(***************************************************************************)
(* validate_json_data and its inner check_dict_recursive.  In a container   *)
(* all items are equal, so the loop over the items returns what the check   *)
(* of the first item returns.  A nest of n lists is descended n levels:     *)
(* its innermost list is checked at depth + n - 1, its item at depth + n.   *)
(***************************************************************************)
Valid == [ok |-> TRUE, msg |-> ""]
Invalid(m) == [ok |-> FALSE, msg |-> m]

RECURSIVE check_dict_recursive(_, _)
check_dict_recursive(obj, depth) ==
    IF depth > MAX_DEPTH THEN Invalid("Data too deeply nested")
    ELSE IF obj.t = "dict" THEN
        IF obj.n > MAX_KEYS THEN Invalid("Too many keys in dictionary")
        ELSE IF obj.n = 0 THEN Valid
        ELSE IF obj.klen > MAX_KEY_LEN THEN Invalid("Key too long")
        ELSE check_dict_recursive(obj.sub[1], depth + 1)
    ELSE IF obj.t = "list" THEN
        IF obj.n > MAX_LIST THEN Invalid("List too large")
        ELSE IF obj.n = 0 THEN Valid
        ELSE check_dict_recursive(obj.sub[1], depth + 1)
    ELSE IF obj.t = "nest" THEN
        IF depth + obj.n - 1 > MAX_DEPTH THEN Invalid("Data too deeply nested")
        ELSE check_dict_recursive(obj.sub[1], depth + obj.n)
    ELSE IF obj.t = "str" THEN
        IF obj.n > MAX_STR THEN Invalid("String value too long") ELSE Valid
    ELSE Valid

\* a validator that forgets the check of the total size
validate_no_total(data) ==
    IF data.t # "dict" THEN Invalid("Root must be a dictionary")
    ELSE check_dict_recursive(data, 0)

\* a validator that forgets the recursive check
validate_root_only(data) ==
    IF data.t # "dict" THEN Invalid("Root must be a dictionary") ELSE Valid

validate_json_data(data) ==
    IF data.t # "dict" THEN Invalid("Root must be a dictionary")
    ELSE IF DumpsLen(data) > MAX_TOTAL THEN Invalid("Data too large (>10MB)")
    ELSE check_dict_recursive(data, 0)

(***************************************************************************)
(* File contents.  A file is described by what json.load makes of it and    *)
(* by its size in bytes (os.path.getsize):                                  *)
(*   json     UTF-8 text of the JSON value val[1]                           *)
(*   badjson  UTF-8 text that is no JSON value: json.JSONDecodeError        *)
(*   badutf8  bytes that are no UTF-8 text: UnicodeDecodeError              *)
(*   none     no file at this path                                          *)
(***************************************************************************)
NoFile == [kind |-> "none", val |-> <<>>, size |-> 0]
\* what json.dump(data, f, indent=2, ensure_ascii=False) leaves in f
json_dump(data) == [kind |-> "json", val |-> <<data>>, size |-> DumpLen(data, 0)]
\* a temporary file just created by mkstemp, and one whose write was cut short
EmptyFile == [kind |-> "badjson", val |-> <<>>, size |-> 0]
PartialFile == [kind |-> "badjson", val |-> <<>>, size |-> 1]
\* contents an outside writer may leave in the store file
NotJson == [kind |-> "badjson", val |-> <<>>, size |-> 9]
NotUtf8 == [kind |-> "badutf8", val |-> <<>>, size |-> 11]
ListRoot == json_dump(JList(2, JInt(1)))
Garbage == {NotJson, NotUtf8, ListRoot}

EmptyDoc == JDict(0, 0, JInt(1))

(***************************************************************************)
(* The documents callers save.                                              *)
(***************************************************************************)
DocA == JDict(1, 2, JDict(1, 6, JInt(2)))   \* {"42": {"points": 10}}
DocB == JDict(2, 2, JDict(1, 6, JInt(2)))
DocDeep51 == JDict(1, 1, JNest(MAX_DEPTH, JInt(1)))
DocKeys10001 == JDict(MAX_KEYS + 1, 5, JInt(1))
DocList10001 == JDict(1, 1, JList(MAX_LIST + 1, JInt(1)))
DocStr100001 == JDict(1, 1, JStr(MAX_STR + 1))
DocListRoot == JList(2, JInt(1))
\* within every bound, 3,000,299 characters compact: 100 lists of 10,000
\* numbers at depth 48
DocWide == JDict(1, 1, JNest(46, JList(100, JList(MAX_LIST, JInt(1)))))

SmallDocs == {DocA, DocB, DocDeep51}
BadDocs == {DocDeep51, DocKeys10001, DocList10001, DocStr100001, DocListRoot}
SeqDocs == {DocA, DocWide} \cup BadDocs

\* documents at the limits of the validator, and one step beyond them
DocDeep50 == JDict(1, 1, JNest(MAX_DEPTH - 1, JInt(1)))
DocDeepEmpty == JDict(1, 1, JNest(MAX_DEPTH - 1, JList(0, JInt(1))))
DocKeys10000 == JDict(MAX_KEYS, 5, JInt(1))
DocList10000 == JDict(1, 1, JList(MAX_LIST, JInt(1)))
DocStr100000 == JDict(1, 1, JStr(MAX_STR))
DocKey1000 == JDict(1, MAX_KEY_LEN, JInt(1))
DocKey1001 == JDict(1, MAX_KEY_LEN + 1, JInt(1))
\* {"kk..k": ["xx..x", ...]}: 105 strings of 99,860 letters under a key of 34
\* letters serialise to exactly 10 * 1024 * 1024 characters
DocTotalMax == JDict(1, 34, JList(105, JStr(99860)))
DocTotalOver == JDict(1, 35, JList(105, JStr(99860)))
EdgeDocs ==
    {DocDeep50, DocDeepEmpty, DocKeys10000, DocList10000, DocStr100000,
     DocKey1000, DocKey1001, DocTotalMax, DocTotalOver}
ValDocs == {DocA, DocWide} \cup BadDocs \cup EdgeDocs

(***************************************************************************)
(* Bounds of the model.                                                     *)
(***************************************************************************)
NProcs == 2        \* processes sharing the store in Spec
MaxEvents == 3     \* calls and outside writes in one behaviour of Spec
MaxSeqEvents == 4  \* calls and outside writes in one behaviour of SpecSeq
MaxTicks == 2      \* advances of the clock in one behaviour
MaxLongEvents == 4 \* calls in one behaviour of SpecLong
MaxDirEvents == 1  \* calls and outside writes in one behaviour of SpecDir
MaxValEvents == 1  \* calls and outside writes in one behaviour of SpecVal
MaxCacheEvents == 2   \* calls of the cache in one behaviour of SpecCache
NThreads == 2         \* threads calling the cache in SpecThreads
MaxThreadEvents == 2  \* calls of the cache in one behaviour of SpecThreads
MaxRankEvents == 3    \* handlers of the ranking caller in one behaviour
MaxLoadEvents == 2    \* calls in one behaviour of SpecLoads

\* the clock advances by one second or by just over the staleness threshold
TickSizes == {1, STALE_AFTER + 1}
TicksUsed(t) == (t \div (STALE_AFTER + 1)) + (t % (STALE_AFTER + 1))

(***************************************************************************)
(* State.                                                                   *)
(***************************************************************************)
VARIABLES
    conf,      \* [procs, docs, garbage, plat, maxEvents]: the processes, the
               \* documents they save, what outside writers leave in a file,
               \* os.name, and the length of the behaviour
    now,       \* time.time(), in seconds
    events,    \* calls and outside writes so far
    file,      \* the store file self.file_path
    lock,      \* the lock file self.lock_file: [owner, mtime], owner 0 when absent
    backups,   \* the .bak files of self.backup_dir: set of [ts, ctime, data]
    tmpf,      \* tmpf[p]: the temporary file of p's save
    orphans,   \* temporary files left behind by crashed processes
    pc,        \* pc[p]: where process p stands in its call
    op,        \* op[p]: "save" or "load", the call p makes or made last
    arg,       \* arg[p]: the document passed to safe_save
    fd,        \* fd[p]: lock_fd is not None
    ret,       \* ret[p]: what p's last call returned or raised
    pre,       \* history: pre[p] is the store file as it was when p's call started
    began,     \* history: began[p] is what had happened when p's call started
               \* (see NoBegan)
    hist       \* history: what has happened to the store so far (see NoHist)

(***************************************************************************)
(* The cache: BotCache (src/utils/cache.py), one object shared by every     *)
(* caller of the process, and the maintenance tasks of src/bot.py.          *)
(***************************************************************************)
VARIABLES
    ccfg,               \* [threads, keys, vals, times, maxEvents]: the
                        \* callers, the ids they look up, the values they
                        \* build, the instants time.time() returns, and the
                        \* length of the behaviour
    user_cache,         \* self.user_cache: dict of user id -> object
    server_cache,       \* self.server_cache
    static_cache,       \* self.static_cache: [tricks, facts]
    user_timestamps,    \* self.user_timestamps: dict of user id -> time
    server_timestamps,  \* self.server_timestamps
    mutex,              \* self.lock: the thread holding it, 0 when free
    heap,               \* the dict objects: heap[i] = [top, ref], the top-level
                        \* content of object i and the nested object it holds
    inner,              \* inner[r]: the content of nested object r
    th,                 \* th[t]: where thread t stands in its call, and its
                        \* local variables (see Idle)
    puts                \* history: puts[dom][k] is <<[val, time]>> for the last
                        \* set of k when no invalidate of k came after it

cvars == <<ccfg, user_cache, server_cache, static_cache, user_timestamps,
           server_timestamps, mutex, heap, inner, th, puts>>

(***************************************************************************)
(* The ranking caller: RankingSystem (src/cogs/ranking.py), which keeps the *)
(* authoritative document in memory, looks users up through the cache and   *)
(* hands the document to safe_save.                                         *)
(***************************************************************************)
VARIABLES
    user_data,  \* self.user_data: user id -> the object of the user's record,
                \* None for a user the document does not hold
    saved,      \* history: the documents handed to safe_save, the last two
    rcall       \* history: the last operation of the ranking caller (see
                \* NoCall)

rvars == <<user_data, saved, rcall>>

fvars == <<conf, file, lock, backups, tmpf, orphans, pc, op, arg, fd, ret, pre, began,
           hist>>

vars == <<conf, now, events, file, lock, backups, tmpf, orphans, pc, op, arg, fd, ret,
          pre, began, hist, cvars, rvars>>

NoLock == [owner |-> 0, mtime |-> 0]

NoRet == [kind |-> "none", ok |-> FALSE, val |-> <<>>, msg |-> ""]
RetBool(b) == [kind |-> "bool", ok |-> b, val |-> <<>>, msg |-> ""]
RetDoc(d) == [kind |-> "doc", ok |-> TRUE, val |-> <<d>>, msg |-> ""]
Raised(m) == [kind |-> "raise", ok |-> FALSE, val |-> <<>>, msg |-> m]

\* the steps of a call made while the lock file it created exists in its name
Body == {"validate", "backup", "mkstemp", "write", "nt_unlink", "rename",
         "cleanup", "exists", "getsize", "read", "restore", "release"}

(***************************************************************************)
(* History kept for the properties; no action reads it.                     *)
(*   last         <<d>> when the latest thing done to the store is a        *)
(*                safe_save(d) that returned True; <<>> otherwise           *)
(*   interrupted  <<c>> when the latest thing done to the store is a        *)
(*                safe_save killed between writing its temporary file and   *)
(*                renaming it, c being the store file when it started       *)
(*   stage, doc   how far the behaviour follows the scenario                *)
(*                "fresh":     nothing but loads so far                     *)
(*                "saving":    the first safe_save is running               *)
(*                "saved":     it returned True for doc[1]; loads since     *)
(*                "corrupted": then the store file was overwritten with     *)
(*                             unparseable bytes; loads since               *)
(*                "off":       anything else happened                       *)
(*   n            the number of safe_save calls that returned True, when    *)
(*                every safe_save so far ran to its end, returned True and  *)
(*                had its backup copy succeed, and nothing outside wrote    *)
(*                the store; -1 otherwise                                   *)
(*   done         "yes" once a safe_save has returned True, "no" before,   *)
(*                "tampered" once something outside has written the store   *)
(* began[p] keeps, for the call p is making:                                *)
(*   saved        hist.done was "yes" when the call started                 *)
(*   retry        the previous call of p ended with "Stale lock removed,    *)
(*                please retry"                                             *)
(***************************************************************************)
NoHist ==
    [last |-> <<>>, interrupted |-> <<>>, stage |-> "fresh", doc |-> <<>>,
     n |-> 0, done |-> "no"]

NoBegan == [saved |-> FALSE, retry |-> FALSE]

Unparseable(content) == content.kind \in {"badjson", "badutf8"}

HistCall(o) ==
    IF o = "load" THEN hist
    ELSE [last |-> <<>>, interrupted |-> <<>>,
          stage |-> IF hist.stage = "fresh" THEN "saving" ELSE "off",
          doc |-> <<>>, n |-> hist.n, done |-> hist.done]

HistReturn(p) ==
    IF op[p] = "load" THEN hist
    ELSE IF ret[p].kind = "bool" /\ ret[p].ok
    THEN [last |-> <<arg[p]>>, interrupted |-> <<>>,
          stage |-> IF hist.stage = "saving" THEN "saved" ELSE "off",
          doc |-> IF hist.stage = "saving" THEN <<arg[p]>> ELSE <<>>,
          n |-> IF hist.n >= 0 THEN hist.n + 1 ELSE -1,
          done |-> IF hist.done = "no" THEN "yes" ELSE hist.done]
    ELSE [last |-> <<>>, interrupted |-> <<>>, stage |-> "off", doc |-> <<>>,
          n |-> -1, done |-> hist.done]

HistCrash(p) ==
    [last |-> <<>>,
     interrupted |-> IF op[p] = "save" /\ pc[p] \in {"nt_unlink", "rename"}
                     THEN <<pre[p]>> ELSE <<>>,
     stage |-> "off", doc |-> <<>>,
     n |-> IF op[p] = "save" THEN -1 ELSE hist.n, done |-> hist.done]

HistCorrupt(g) ==
    [last |-> <<>>, interrupted |-> <<>>,
     stage |-> IF hist.stage = "saved" /\ Unparseable(g) THEN "corrupted" ELSE "off",
     doc |-> IF hist.stage = "saved" /\ Unparseable(g) THEN hist.doc ELSE <<>>,
     n |-> -1, done |-> "tampered"]

HistOff ==
    [last |-> <<>>, interrupted |-> <<>>, stage |-> "off", doc |-> <<>>,
     n |-> -1, done |-> "tampered"]

\* shutil.copy2 raised in create_backup
HistCopyFailed == [hist EXCEPT !.n = -1]

\* the message of the call that found the lock stale and removed it
StaleRemoved == "Stale lock removed, please retry"

(***************************************************************************)
(* Backups: cleanup_old_backups and restore_from_backup list the            *)
(* directory, sort by (ctime, path) with the newest first.                  *)
(***************************************************************************)
Newer(a, b) == a.ctime > b.ctime \/ (a.ctime = b.ctime /\ a.ts > b.ts)
Newest(S) == CHOOSE a \in S : \A b \in S \ {a} : Newer(a, b)

RECURSIVE SortedBackups(_)
SortedBackups(S) ==
    IF S = {} THEN <<>>
    ELSE <<Newest(S)>> \o SortedBackups(S \ {Newest(S)})

\* backups[10:] of the sorted list are unlinked
cleanup_old_backups(S) ==
    LET sorted == SortedBackups(S)
    IN {sorted[i] : i \in 1..(IF Len(sorted) < KEEP_BACKUPS THEN Len(sorted)
                              ELSE KEEP_BACKUPS)}

\* shutil.copy2 onto {basename}.{int(time.time())}.bak, then the cleanup
create_backup(S, content, t) ==
    cleanup_old_backups({b \in S : b.ts # t}
                        \cup {[ts |-> t, ctime |-> t, data |-> content]})

\* json.load followed by validate_json_data succeeds on this content
Loadable(content) ==
    content.kind = "json" /\ validate_json_data(content.val[1]).ok

RECURSIVE FirstLoadable(_, _)
FirstLoadable(sorted, i) ==
    IF i > Len(sorted) THEN EmptyDoc
    ELSE IF Loadable(sorted[i].data) THEN sorted[i].data.val[1]
    ELSE FirstLoadable(sorted, i + 1)

\* a restore that returns the newest backup that parses, unvalidated
RECURSIVE FirstParsing(_, _)
FirstParsing(sorted, i) ==
    IF i > Len(sorted) THEN EmptyDoc
    ELSE IF sorted[i].data.kind = "json" THEN sorted[i].data.val[1]
    ELSE FirstParsing(sorted, i + 1)

restore_unvalidated(S) == FirstParsing(SortedBackups(S), 1)

restore_from_backup(S) == FirstLoadable(SortedBackups(S), 1)

(***************************************************************************)
(* The settings of BotCache.__init__.                                       *)
(***************************************************************************)
USER_CACHE_TTL == 300
SERVER_CACHE_TTL == 600
MAX_USER_CACHE_SIZE == 1000
MAX_SERVER_CACHE_SIZE == 500

(***************************************************************************)
(* A Python dict, in insertion order.  It is a sequence of blocks           *)
(* [lo, hi, v]: the keys lo, lo+1, .., hi, inserted in this order, each     *)
(* mapped to v.  A block of one key is an entry; longer blocks stand for    *)
(* the entries of the many other users and servers, so that a cache at its  *)
(* capacity of 1,000 entries can be written down.                           *)
(***************************************************************************)
Entry(k, v) == [lo |-> k, hi |-> k, v |-> v]
Block(first, last, v) == [lo |-> first, hi |-> last, v |-> v]
BlockLen(b) == b.hi - b.lo + 1

\* len(d)
RECURSIVE len(_)
len(d) == IF d = <<>> THEN 0 ELSE BlockLen(Head(d)) + len(Tail(d))

\* k in d
contains(d, k) == \E i \in 1..Len(d) : d[i].lo <= k /\ k <= d[i].hi

\* d[k]
getitem(d, k) == d[CHOOSE i \in 1..Len(d) : d[i].lo <= k /\ k <= d[i].hi].v

\* d.pop(k, None) for every k of first..last
RECURSIVE pop_range(_, _, _)
pop_range(d, first, last) ==
    IF d = <<>> THEN <<>>
    ELSE LET b == Head(d)
             below == IF b.hi < first THEN b.hi ELSE first - 1
             above == IF b.lo > last THEN b.lo ELSE last + 1
         IN  (IF b.lo <= below THEN <<[b EXCEPT !.hi = below]>> ELSE <<>>)
             \o (IF above <= b.hi THEN <<[b EXCEPT !.lo = above]>> ELSE <<>>)
             \o pop_range(Tail(d), first, last)

\* d.pop(k, None)
pop(d, k) == pop_range(d, k, k)

\* for k, _ in blocks: d.pop(k, None)
RECURSIVE pop_all(_, _)
pop_all(d, blocks) ==
    IF blocks = <<>> THEN d
    ELSE pop_all(pop_range(d, Head(blocks).lo, Head(blocks).hi), Tail(blocks))

\* d[k] = v: a key already in d keeps its place, a new key goes last
RECURSIVE set_in_place(_, _, _)
set_in_place(d, k, v) ==
    IF d = <<>> THEN <<>>
    ELSE LET b == Head(d) IN
         IF b.lo <= k /\ k <= b.hi
         THEN (IF b.lo < k THEN <<[b EXCEPT !.hi = k - 1]>> ELSE <<>>)
              \o <<Entry(k, v)>>
              \o (IF k < b.hi THEN <<[b EXCEPT !.lo = k + 1]>> ELSE <<>>)
              \o Tail(d)
         ELSE <<b>> \o set_in_place(Tail(d), k, v)

setitem(d, k, v) ==
    IF contains(d, k) THEN set_in_place(d, k, v) ELSE Append(d, Entry(k, v))

\* sorted(d.items(), key=lambda x: x[1]): a stable sort, entries of equal
\* value stay in insertion order
RECURSIVE insort(_, _)
insort(s, b) ==
    IF s = <<>> THEN <<b>>
    ELSE IF Head(s).v <= b.v THEN <<Head(s)>> \o insort(Tail(s), b)
    ELSE <<b>> \o s

RECURSIVE sorted(_)
sorted(d) ==
    IF d = <<>> THEN <<>>
    ELSE insort(sorted(SubSeq(d, 1, Len(d) - 1)), d[Len(d)])

\* items[:m]
RECURSIVE first_items(_, _)
first_items(items, m) ==
    IF m = 0 \/ items = <<>> THEN <<>>
    ELSE LET b == Head(items) IN
         IF BlockLen(b) <= m
         THEN <<b>> \o first_items(Tail(items), m - BlockLen(b))
         ELSE <<[b EXCEPT !.hi = b.lo + m - 1]>>

(***************************************************************************)
(* Objects.  A cached value is a dict object; heap[i] is the object of      *)
(* identity i, with its top-level content `top` and the identity `ref` of   *)
(* the one nested object it holds (the "cooldowns" dict of a user record).  *)
(* inner[r] is the content of nested object r.  A thread that holds object  *)
(* i can change heap[i].top and inner[heap[i].ref].                         *)
(***************************************************************************)
None == 0

\* what a caller reads in object i, nested content included
Deep(i) == [top |-> heap[i].top, nested |-> inner[heap[i].ref]]

\* obj.copy(): a new object with the same top-level content, holding the very
\* same nested object; the new identity is Len(heap) + 1
shallow_copy(i) == Append(heap, heap[i])

(***************************************************************************)
(* _cleanup_old_user_data and _cleanup_old_server_data: the oldest quarter  *)
(* of the entries of the timestamp map leaves both maps.                    *)
(***************************************************************************)
to_remove(timestamps) == first_items(sorted(timestamps), len(timestamps) \div 4)

\* a cleanup that removes the newest quarter
cleanup_newest(cache, timestamps) ==
    LET gone == first_items(sorted([i \in 1..Len(timestamps) |->
                                       [timestamps[i] EXCEPT !.v = 0 - @]]),
                            len(timestamps) \div 4)
    IN  [cache |-> pop_all(cache, gone), timestamps |-> pop_all(timestamps, gone)]

\* an eviction that forgets to drop the timestamps
cleanup_values_only(cache, timestamps) ==
    [cache |-> pop_all(cache, to_remove(timestamps)), timestamps |-> timestamps]

cleanup_old_data(cache, timestamps) ==
    [cache |-> pop_all(cache, to_remove(timestamps)),
     timestamps |-> pop_all(timestamps, to_remove(timestamps))]

(***************************************************************************)
(* cleanup_expired, for one domain: the entries of the timestamp map whose  *)
(* age at current_time is at least the TTL.                                 *)
(***************************************************************************)
\* a sweep that keeps the entries whose age is exactly the TTL
expired_late(timestamps, current_time, ttl) ==
    SelectSeq(timestamps, LAMBDA b : current_time - b.v > ttl)

expired(timestamps, current_time, ttl) ==
    SelectSeq(timestamps, LAMBDA b : current_time - b.v >= ttl)

(***************************************************************************)
(* The test of get_user_data and get_server_data.                           *)
(***************************************************************************)
\* a test that takes an entry whose age is exactly the TTL for fresh
is_cached_late(cache, timestamps, k, current_time, ttl) ==
    /\ contains(cache, k)
    /\ contains(timestamps, k)
    /\ current_time - getitem(timestamps, k) <= ttl

is_cached(cache, timestamps, k, current_time, ttl) ==
    /\ contains(cache, k)
    /\ contains(timestamps, k)
    /\ current_time - getitem(timestamps, k) < ttl

(***************************************************************************)
(* The cache after construction, and the threads calling it.  th[t] holds   *)
(*   pc      where t stands: "idle" between calls, otherwise inside `op`    *)
(*   op      the call t makes or made last                                  *)
(*   dom     "user" or "server";  key  the id passed                        *)
(*   name    the key passed to get_static_data                              *)
(*   data    the object t holds: the one it passed to set_*_data or the one *)
(*           get_*_data returned to it (None after a miss)                  *)
(*   src     how t came by data: "set", "get" or "none"                     *)
(*   time    current_time;  rem  users_to_remove or servers_to_remove       *)
(*   count   what cleanup_expired returned                                  *)
(*   got     what get_static_data returned: <<x>>, or <<>> for None         *)
(***************************************************************************)
Domains == {"user", "server"}
StaticKeys == {"tricks", "facts", "other"}

Idle ==
    [pc |-> "idle", op |-> "none", dom |-> "user", key |-> 0, name |-> "",
     data |-> None, src |-> "none", time |-> 0, rem |-> <<>>, count |-> 0,
     got |-> <<>>]

\* no caller: the cache of a process that only uses the store
NoCallers ==
    [threads |-> {}, keys |-> {}, vals |-> {}, times |-> {}, maxEvents |-> 0]

\* _load_static_cache when neither file can be read, and when both can
StaticMissing == [tricks |-> <<>>, facts |-> <<>>]
StaticLoaded == [tricks |-> <<"ollie", "kickflip">>, facts |-> <<"fact">>]

\* no operation of the ranking caller has run
NoCall == [op |-> "none", key |-> 0, ret |-> 0, hit |-> FALSE]

\* a process without the ranking caller
NoRanking == user_data = <<>> /\ saved = <<>> /\ rcall = NoCall

\* BotCache.__init__, for callers cfg
InitBotCache(cfg) ==
    /\ ccfg = cfg
    /\ user_cache = <<>>
    /\ server_cache = <<>>
    /\ user_timestamps = <<>>
    /\ server_timestamps = <<>>
    /\ mutex = 0
    /\ heap = <<>>
    /\ inner = [r \in {v.ref : v \in cfg.vals} |-> "as set"]
    /\ th = [t \in cfg.threads |-> Idle]
    /\ puts = [dom \in Domains |-> [k \in cfg.keys |-> <<>>]]

(***************************************************************************)
(* Initial state: an empty data directory.                                  *)
(***************************************************************************)
\* the cache of the process, unused
InitNoCache ==
    InitBotCache(NoCallers) /\ static_cache = StaticMissing /\ NoRanking

\* no call is running
InitCalls ==
    /\ now = 0
    /\ events = 0
    /\ orphans = 0
    /\ tmpf = [p \in conf.procs |-> NoFile]
    /\ pc = [p \in conf.procs |-> "idle"]
    /\ op = [p \in conf.procs |-> "load"]
    /\ arg = [p \in conf.procs |-> EmptyDoc]
    /\ fd = [p \in conf.procs |-> FALSE]
    /\ ret = [p \in conf.procs |-> NoRet]
    /\ pre = [p \in conf.procs |-> NoFile]
    /\ began = [p \in conf.procs |-> NoBegan]

InitStore ==
    /\ InitCalls
    /\ InitNoCache
    /\ lock = NoLock
    /\ file = NoFile
    /\ backups = {}
    /\ hist = NoHist

Init ==
    /\ conf \in [procs : {1..NProcs}, docs : {SmallDocs}, garbage : {{NotJson}},
                 plat : {"posix", "nt"}, maxEvents : {MaxEvents}]
    /\ InitStore

\* one process, every document, outside writers
InitSeq ==
    /\ conf \in [procs : {{1}}, docs : {SeqDocs}, garbage : {Garbage},
                 plat : {"posix", "nt"}, maxEvents : {MaxSeqEvents}]
    /\ InitStore

\* several processes saving one document, in longer behaviours
InitLong ==
    /\ conf \in [procs : {1..NProcs}, docs : {{DocA}}, garbage : {{NotJson}},
                 plat : {"posix", "nt"}, maxEvents : {MaxLongEvents}]
    /\ InitStore

(***************************************************************************)
(* A handler constructed over a data directory that is already there: the   *)
(* store file and up to two backups, written one and two seconds before,    *)
(* hold whatever earlier runs and outside writers left in them, and a       *)
(* process killed inside a call may have left its lock file.                *)
(***************************************************************************)
FoundFiles == {NoFile, json_dump(DocA), json_dump(DocDeep51), NotJson}
FoundBackupData == {json_dump(DocB), json_dump(DocDeep51), ListRoot, NotJson}
FoundBackup(age, content) == [ts |-> 0 - age, ctime |-> 0 - age, data |-> content]
FoundLock == [owner |-> 1, mtime |-> 0]
FoundBackups ==
    {{}} \cup {{FoundBackup(1, x)} : x \in FoundBackupData}
         \cup {{FoundBackup(1, x), FoundBackup(2, y)} :
                   x \in FoundBackupData, y \in FoundBackupData}

InitDir ==
    /\ conf \in [procs : {{1}}, docs : {{DocA}}, garbage : {{NotJson}},
                 plat : {"posix", "nt"}, maxEvents : {MaxDirEvents}]
    /\ InitCalls
    /\ InitNoCache
    /\ lock \in {NoLock, FoundLock}
    /\ file \in FoundFiles
    /\ backups \in FoundBackups
    /\ hist = HistOff

\* one call on a small directory found as it is, with every document at the
\* limits of the validator
InitVal ==
    /\ conf \in [procs : {{1}}, docs : {ValDocs}, garbage : {{NotJson}},
                 plat : {"posix", "nt"}, maxEvents : {MaxValEvents}]
    /\ InitCalls
    /\ InitNoCache
    /\ lock \in {NoLock, FoundLock}
    /\ file \in {NoFile, NotJson}
    /\ backups \in {{}, {FoundBackup(1, json_dump(DocB))}}
    /\ hist = HistOff

(***************************************************************************)
(* file_lock, up to the yield.                                              *)
(***************************************************************************)
\* the call starts: os.open(self.lock_file, O_CREAT | O_EXCL | O_RDWR)
Acquire(p, o, d) ==
    /\ pc[p] = "idle"
    /\ events < conf.maxEvents
    /\ events' = events + 1
    /\ op' = [op EXCEPT ![p] = o]
    /\ arg' = [arg EXCEPT ![p] = d]
    /\ ret' = [ret EXCEPT ![p] = NoRet]
    /\ pre' = [pre EXCEPT ![p] = file]
    /\ began' = [began EXCEPT ![p] = [saved |-> hist.done = "yes",
                                      retry |-> ret[p].msg = StaleRemoved]]
    /\ hist' = HistCall(o)
    /\ IF lock.owner = 0
       THEN /\ lock' = [owner |-> p, mtime |-> now]
            /\ fd' = [fd EXCEPT ![p] = TRUE]
            /\ pc' = [pc EXCEPT ![p] = IF o = "save" THEN "validate" ELSE "exists"]
       ELSE \* errno 17
            /\ pc' = [pc EXCEPT ![p] = "lock_stat"]
            /\ UNCHANGED <<lock, fd>>
    /\ UNCHANGED <<cvars, rvars, conf, now, file, backups, tmpf, orphans>>

CallSave(p) == \E d \in conf.docs : Acquire(p, "save", d)
CallLoad(p) == Acquire(p, "load", EmptyDoc)

\* an exception leaves file_lock before the yield: lock_fd is None, nothing
\* is unlinked, and the exception reaches the caller of safe_save / safe_load
RaiseOut(p, m) ==
    /\ pc' = [pc EXCEPT ![p] = "idle"]
    /\ ret' = [ret EXCEPT ![p] = Raised(m)]
    /\ arg' = [arg EXCEPT ![p] = EmptyDoc]
    /\ pre' = [pre EXCEPT ![p] = NoFile]
    /\ began' = [began EXCEPT ![p] = NoBegan]

\* an acquisition that waits for a lock that is not stale to go away
LockStat_Waits(p) ==
    /\ pc[p] = "lock_stat"
    /\ lock.owner # 0 => now - lock.mtime > STALE_AFTER
    /\ IF lock.owner = 0
       THEN RaiseOut(p, "Lock file disappeared, please retry")
       ELSE pc' = [pc EXCEPT ![p] = "lock_unlink"] /\ UNCHANGED <<ret, arg, pre, began>>
    /\ UNCHANGED <<cvars, rvars, conf, hist, now, events, file, lock, backups, tmpf, orphans, op, fd>>

\* os.stat(self.lock_file); time.time() - stat.st_mtime > 30
LockStat(p) ==
    /\ pc[p] = "lock_stat"
    /\ IF lock.owner = 0
       THEN RaiseOut(p, "Lock file disappeared, please retry")
       ELSE IF now - lock.mtime > STALE_AFTER
       THEN pc' = [pc EXCEPT ![p] = "lock_unlink"] /\ UNCHANGED <<ret, arg, pre, began>>
       ELSE RaiseOut(p, "File is locked by another process")
    /\ UNCHANGED <<cvars, rvars, conf, hist, now, events, file, lock, backups, tmpf, orphans, op, fd>>

\* a stale-lock branch that raises without unlinking the lock file
LockUnlink_KeepsLock(p) ==
    /\ pc[p] = "lock_unlink"
    /\ IF lock.owner = 0
       THEN RaiseOut(p, "Lock file disappeared, please retry")
       ELSE RaiseOut(p, StaleRemoved)
    /\ UNCHANGED <<cvars, rvars, conf, hist, now, events, file, lock, backups, tmpf, orphans, op, fd>>

\* os.unlink(self.lock_file) of the lock found stale
LockUnlink(p) ==
    /\ pc[p] = "lock_unlink"
    /\ IF lock.owner = 0
       THEN RaiseOut(p, "Lock file disappeared, please retry") /\ UNCHANGED lock
       ELSE RaiseOut(p, StaleRemoved) /\ lock' = NoLock
    /\ UNCHANGED <<cvars, rvars, conf, hist, now, events, file, backups, tmpf, orphans, op, fd>>

\* a release placed after the body instead of in a finally block: the lock
\* file stays when the body did not return True or a document
Release_OnSuccessOnly(p) ==
    /\ pc[p] = "release"
    /\ pc' = [pc EXCEPT ![p] = "idle"]
    /\ fd' = [fd EXCEPT ![p] = FALSE]
    /\ lock' = IF ret[p].ok THEN NoLock ELSE lock
    /\ hist' = HistReturn(p)
    /\ arg' = [arg EXCEPT ![p] = EmptyDoc]
    /\ pre' = [pre EXCEPT ![p] = NoFile]
    /\ began' = [began EXCEPT ![p] = NoBegan]
    /\ tmpf' = [tmpf EXCEPT ![p] = NoFile]
    /\ UNCHANGED <<cvars, rvars, conf, now, events, file, backups, orphans, op, ret>>

\* the finally block: os.close(lock_fd); os.unlink(self.lock_file).  The call
\* returns: a temporary file its cleanup could not remove stays in the
\* directory under a name no later call reads or reuses, and tmpf[p] stops
\* following it.
Release(p) ==
    /\ pc[p] = "release"
    /\ pc' = [pc EXCEPT ![p] = "idle"]
    /\ fd' = [fd EXCEPT ![p] = FALSE]
    /\ lock' = NoLock
    /\ hist' = HistReturn(p)
    /\ arg' = [arg EXCEPT ![p] = EmptyDoc]
    /\ pre' = [pre EXCEPT ![p] = NoFile]
    /\ began' = [began EXCEPT ![p] = NoBegan]
    /\ tmpf' = [tmpf EXCEPT ![p] = NoFile]
    /\ UNCHANGED <<cvars, rvars, conf, now, events, file, backups, orphans, op, ret>>

(***************************************************************************)
(* safe_save, inside the lock.                                              *)
(***************************************************************************)
\* the body returns or raises into safe_save's handlers with this result
Finish(p, r) ==
    /\ pc' = [pc EXCEPT ![p] = "release"]
    /\ ret' = [ret EXCEPT ![p] = r]

SaveValidate(p) ==
    /\ pc[p] = "validate"
    /\ IF validate_json_data(arg[p]).ok
       THEN pc' = [pc EXCEPT ![p] = "backup"] /\ UNCHANGED ret
       ELSE Finish(p, RetBool(FALSE))
    /\ UNCHANGED <<cvars, rvars, conf, pre, began, hist, now, events, file, lock, backups, tmpf, orphans, op, arg, fd>>

\* a backup step that copies the document being saved instead of the file
\* about to be replaced
CreateBackup_OfNewData(p) ==
    /\ pc[p] = "backup"
    /\ pc' = [pc EXCEPT ![p] = "mkstemp"]
    /\ backups' = create_backup(backups, json_dump(arg[p]), now)
    /\ UNCHANGED <<cvars, rvars, conf, pre, began, hist, now, events, file, lock, tmpf, orphans, op, arg, fd, ret>>

\* self.create_backup(): its result is not looked at
CreateBackup(p) ==
    /\ pc[p] = "backup"
    /\ pc' = [pc EXCEPT ![p] = "mkstemp"]
    /\ \/ file.kind = "none" /\ UNCHANGED <<backups, hist>>
       \/ /\ file.kind # "none"
          /\ backups' = create_backup(backups, file, now)
          /\ UNCHANGED hist
       \/ \* shutil.copy2 raises: logged, None returned
          file.kind # "none" /\ UNCHANGED backups /\ hist' = HistCopyFailed
    /\ UNCHANGED <<cvars, rvars, conf, pre, began, now, events, file, lock, tmpf, orphans, op, arg, fd, ret>>

Mkstemp(p) ==
    /\ pc[p] = "mkstemp"
    /\ \/ /\ tmpf' = [tmpf EXCEPT ![p] = EmptyFile]
          /\ pc' = [pc EXCEPT ![p] = "write"]
          /\ UNCHANGED ret
       \/ \* tempfile.mkstemp raises
          Finish(p, RetBool(FALSE)) /\ UNCHANGED tmpf
    /\ UNCHANGED <<cvars, rvars, conf, pre, began, hist, now, events, file, lock, backups, orphans, op, arg, fd>>

\* json.dump, f.flush, os.fsync
WriteTemp(p) ==
    /\ pc[p] = "write"
    /\ \/ /\ tmpf' = [tmpf EXCEPT ![p] = json_dump(arg[p])]
          /\ pc' = [pc EXCEPT ![p] = IF conf.plat = "nt" THEN "nt_unlink" ELSE "rename"]
       \/ \* the write or the fsync raises
          /\ tmpf' = [tmpf EXCEPT ![p] = PartialFile]
          /\ pc' = [pc EXCEPT ![p] = "cleanup"]
    /\ UNCHANGED <<cvars, rvars, conf, pre, began, hist, now, events, file, lock, backups, orphans, op, arg, fd, ret>>

\* if os.name == 'nt': if os.path.exists(self.file_path): os.unlink(self.file_path)
NtUnlink(p) ==
    /\ pc[p] = "nt_unlink"
    /\ \/ /\ file' = NoFile
          /\ pc' = [pc EXCEPT ![p] = "rename"]
       \/ \* os.unlink raises
          /\ file.kind # "none"
          /\ pc' = [pc EXCEPT ![p] = "cleanup"]
          /\ UNCHANGED file
    /\ UNCHANGED <<cvars, rvars, conf, pre, began, hist, now, events, lock, backups, tmpf, orphans, op, arg, fd, ret>>

\* a save that copies the temporary file onto the target and leaves it
Rename_KeepsTemp(p) ==
    /\ pc[p] = "rename"
    /\ \/ /\ conf.plat = "nt" => file.kind = "none"
          /\ file' = tmpf[p]
          /\ Finish(p, RetBool(TRUE))
          /\ UNCHANGED tmpf
       \/ /\ pc' = [pc EXCEPT ![p] = "cleanup"]
          /\ UNCHANGED <<file, tmpf, ret>>
    /\ UNCHANGED <<cvars, rvars, conf, pre, began, hist, now, events, lock, backups, orphans, op, arg, fd>>

\* os.rename(temp_path, self.file_path): on nt it raises when the target exists
Rename(p) ==
    /\ pc[p] = "rename"
    /\ \/ /\ conf.plat = "nt" => file.kind = "none"
          /\ file' = tmpf[p]
          /\ tmpf' = [tmpf EXCEPT ![p] = NoFile]
          /\ Finish(p, RetBool(TRUE))
       \/ \* os.rename raises
          /\ pc' = [pc EXCEPT ![p] = "cleanup"]
          /\ UNCHANGED <<file, tmpf, ret>>
    /\ UNCHANGED <<cvars, rvars, conf, pre, began, hist, now, events, lock, backups, orphans, op, arg, fd>>

\* except Exception: try: os.unlink(temp_path) except: pass; raise e
\* -> return False
Cleanup(p) ==
    /\ pc[p] = "cleanup"
    /\ \/ tmpf' = [tmpf EXCEPT ![p] = NoFile]
       \/ \* os.unlink(temp_path) raises: ignored, the temporary file stays
          UNCHANGED tmpf
    /\ Finish(p, RetBool(FALSE))
    /\ UNCHANGED <<cvars, rvars, conf, pre, began, hist, now, events, file, lock, backups, orphans, op, arg, fd>>

(***************************************************************************)
(* safe_load, inside the lock.                                              *)
(***************************************************************************)
LoadExists(p) ==
    /\ pc[p] = "exists"
    /\ IF file.kind = "none"
       THEN Finish(p, RetDoc(EmptyDoc))
       ELSE pc' = [pc EXCEPT ![p] = "getsize"] /\ UNCHANGED ret
    /\ UNCHANGED <<cvars, rvars, conf, pre, began, hist, now, events, file, lock, backups, tmpf, orphans, op, arg, fd>>

\* os.path.getsize: FileNotFoundError and "File too large" both end in
\* except Exception: return {}
LoadGetsize(p) ==
    /\ pc[p] = "getsize"
    /\ IF file.kind = "none" \/ file.size > MAX_FILE
       THEN Finish(p, RetDoc(EmptyDoc))
       ELSE pc' = [pc EXCEPT ![p] = "read"] /\ UNCHANGED ret
    /\ UNCHANGED <<cvars, rvars, conf, pre, began, hist, now, events, file, lock, backups, tmpf, orphans, op, arg, fd>>

\* open, json.load, validate_json_data; only json.JSONDecodeError leads to
\* restore_from_backup, every other exception to return {}
LoadRead(p) ==
    /\ pc[p] = "read"
    /\ IF file.kind = "badjson"
       THEN pc' = [pc EXCEPT ![p] = "restore"] /\ UNCHANGED ret
       ELSE IF Loadable(file)
       THEN Finish(p, RetDoc(file.val[1]))
       ELSE Finish(p, RetDoc(EmptyDoc))
    /\ UNCHANGED <<cvars, rvars, conf, pre, began, hist, now, events, file, lock, backups, tmpf, orphans, op, arg, fd>>

\* a load that repairs the store file with the document it recovered
LoadRestore_Repairs(p) ==
    /\ pc[p] = "restore"
    /\ Finish(p, RetDoc(restore_from_backup(backups)))
    /\ file' = json_dump(restore_from_backup(backups))
    /\ UNCHANGED <<cvars, rvars, conf, pre, began, hist, now, events, lock, backups, tmpf, orphans, op, arg, fd>>

LoadRestore(p) ==
    /\ pc[p] = "restore"
    /\ Finish(p, RetDoc(restore_from_backup(backups)))
    /\ UNCHANGED <<cvars, rvars, conf, pre, began, hist, now, events, file, lock, backups, tmpf, orphans, op, arg, fd>>

(***************************************************************************)
(* The environment.                                                         *)
(***************************************************************************)
\* the process is killed in the middle of a call; a new process takes its place
Crash(p) ==
    /\ pc[p] # "idle"
    /\ pc' = [pc EXCEPT ![p] = "idle"]
    /\ fd' = [fd EXCEPT ![p] = FALSE]
    /\ ret' = [ret EXCEPT ![p] = Raised("killed")]
    /\ orphans' = IF tmpf[p].kind = "none" THEN orphans ELSE orphans + 1
    /\ tmpf' = [tmpf EXCEPT ![p] = NoFile]
    /\ hist' = HistCrash(p)
    /\ arg' = [arg EXCEPT ![p] = EmptyDoc]
    /\ pre' = [pre EXCEPT ![p] = NoFile]
    /\ began' = [began EXCEPT ![p] = NoBegan]
    /\ UNCHANGED <<cvars, rvars, conf, now, events, file, lock, backups, op>>

Tick ==
    /\ TicksUsed(now) < MaxTicks
    /\ \E d \in TickSizes : now' = now + d
    /\ UNCHANGED <<cvars, rvars, conf, pre, began, hist, events, file, lock, backups, tmpf, orphans, pc, op, arg, fd, ret>>

\* between two calls, something outside the store overwrites the store file
Corrupt ==
    /\ \A p \in conf.procs : pc[p] = "idle"
    /\ events < conf.maxEvents
    /\ events' = events + 1
    /\ file.kind # "none"
    /\ \E g \in conf.garbage : file' = g /\ hist' = HistCorrupt(g)
    /\ UNCHANGED <<cvars, rvars, conf, pre, began, now, lock, backups, tmpf, orphans, pc, op, arg, fd, ret>>

\* between two calls, something outside the store overwrites a backup
CorruptBackup ==
    /\ \A p \in conf.procs : pc[p] = "idle"
    /\ events < conf.maxEvents
    /\ events' = events + 1
    /\ \E b \in backups :
          backups' = (backups \ {b}) \cup {[ts |-> b.ts, ctime |-> now, data |-> NotJson]}
    /\ hist' = HistOff
    /\ UNCHANGED <<cvars, rvars, conf, pre, began, now, file, lock, tmpf, orphans, pc, op, arg, fd, ret>>

Next ==
    \/ \E p \in conf.procs : CallSave(p)
    \/ \E p \in conf.procs : CallLoad(p)
    \/ \E p \in conf.procs : LockStat(p)
    \/ \E p \in conf.procs : LockUnlink(p)
    \/ \E p \in conf.procs : Release(p)
    \/ \E p \in conf.procs : SaveValidate(p)
    \/ \E p \in conf.procs : CreateBackup(p)
    \/ \E p \in conf.procs : Mkstemp(p)
    \/ \E p \in conf.procs : WriteTemp(p)
    \/ \E p \in conf.procs : NtUnlink(p)
    \/ \E p \in conf.procs : Rename(p)
    \/ \E p \in conf.procs : Cleanup(p)
    \/ \E p \in conf.procs : LoadExists(p)
    \/ \E p \in conf.procs : LoadGetsize(p)
    \/ \E p \in conf.procs : LoadRead(p)
    \/ \E p \in conf.procs : LoadRestore(p)
    \/ \E p \in conf.procs : Crash(p)
    \/ Tick
    \/ Corrupt
    \/ CorruptBackup

\* several processes on one store
Spec == Init /\ [][Next]_vars

\* one process, with outside writers damaging the files
SpecSeq == InitSeq /\ [][Next]_vars

\* several processes, four calls
SpecLong == InitLong /\ [][Next]_vars

\* one process on a directory found as it is
SpecDir == InitDir /\ [][Next]_vars

\* one process saving the documents at the limits of the validator
SpecVal == InitVal /\ [][Next]_vars

(***************************************************************************)
(* Readers only: processes that construct their handler over a directory    *)
(* found as it is and call safe_load, nothing else writing the directory.   *)
(***************************************************************************)
InitLoads ==
    /\ conf \in [procs : {1..NProcs}, docs : {{}}, garbage : {{}},
                 plat : {"posix", "nt"}, maxEvents : {MaxLoadEvents}]
    /\ InitCalls
    /\ InitNoCache
    /\ lock \in {NoLock, FoundLock}
    /\ file \in FoundFiles
    /\ backups \in FoundBackups
    /\ hist = HistOff

NextLoads ==
    \/ \E p \in conf.procs : CallLoad(p)
    \/ \E p \in conf.procs : LockStat(p)
    \/ \E p \in conf.procs : LockUnlink(p)
    \/ \E p \in conf.procs : Release(p)
    \/ \E p \in conf.procs : LoadExists(p)
    \/ \E p \in conf.procs : LoadGetsize(p)
    \/ \E p \in conf.procs : LoadRead(p)
    \/ \E p \in conf.procs : LoadRestore(p)
    \/ Tick

SpecLoads == InitLoads /\ [][NextLoads]_vars

(***************************************************************************)
(* The cache: its operations.                                               *)
(***************************************************************************)
cache_of(dom) == IF dom = "user" THEN user_cache ELSE server_cache
timestamps_of(dom) == IF dom = "user" THEN user_timestamps ELSE server_timestamps
CACHE_TTL(dom) == IF dom = "user" THEN USER_CACHE_TTL ELSE SERVER_CACHE_TTL
MAX_CACHE_SIZE(dom) ==
    IF dom = "user" THEN MAX_USER_CACHE_SIZE ELSE MAX_SERVER_CACHE_SIZE

\* the two maps of dom become m.cache and m.timestamps
SetMaps(dom, m) ==
    IF dom = "user"
    THEN /\ user_cache' = m.cache
         /\ user_timestamps' = m.timestamps
         /\ UNCHANGED <<server_cache, server_timestamps>>
    ELSE /\ server_cache' = m.cache
         /\ server_timestamps' = m.timestamps
         /\ UNCHANGED <<user_cache, user_timestamps>>

\* thread t starts a call or changes an object it holds: one event of the
\* behaviour
Begin(t) ==
    /\ th[t].pc = "idle"
    /\ events < ccfg.maxEvents
    /\ events' = events + 1

\* with self.lock: blocks until the lock is free
AcquireMutex(t) == mutex = 0 /\ mutex' = t

\* get_user_data(k), get_server_data(k): with self.lock
CallGet(t) ==
    /\ Begin(t)
    /\ AcquireMutex(t)
    /\ \E dom \in Domains, k \in ccfg.keys :
          th' = [th EXCEPT ![t] = [Idle EXCEPT !.pc = "locked", !.op = "get",
                                               !.dom = dom, !.key = k]]
    /\ UNCHANGED <<fvars, rvars, now, ccfg, user_cache, server_cache, static_cache,
                   user_timestamps, server_timestamps, heap, inner, puts>>

\* a get that deletes the entry it finds expired
GetData_DropsExpired(t) ==
    /\ th[t].pc = "locked" /\ th[t].op = "get"
    /\ LET dom == th[t].dom
           k == th[t].key
       IN  IF is_cached(cache_of(dom), timestamps_of(dom), k, now, CACHE_TTL(dom))
           THEN /\ heap' = shallow_copy(getitem(cache_of(dom), k))
                /\ th' = [th EXCEPT ![t].pc = "idle", ![t].time = now,
                                    ![t].data = Len(heap) + 1, ![t].src = "get"]
                /\ UNCHANGED <<user_cache, server_cache, user_timestamps,
                               server_timestamps>>
           ELSE /\ heap' = heap
                /\ th' = [th EXCEPT ![t].pc = "idle", ![t].time = now]
                /\ SetMaps(dom, [cache |-> pop(cache_of(dom), k),
                                 timestamps |-> pop(timestamps_of(dom), k)])
    /\ mutex' = 0
    /\ UNCHANGED <<fvars, rvars, now, events, ccfg, static_cache, inner, puts>>

\* the body of get_*_data and the release of the lock
GetData(t) ==
    /\ th[t].pc = "locked" /\ th[t].op = "get"
    /\ LET dom == th[t].dom
           k == th[t].key
       IN  IF is_cached(cache_of(dom), timestamps_of(dom), k, now, CACHE_TTL(dom))
           THEN /\ heap' = shallow_copy(getitem(cache_of(dom), k))
                /\ th' = [th EXCEPT ![t].pc = "idle", ![t].time = now,
                                    ![t].data = Len(heap) + 1, ![t].src = "get"]
           ELSE /\ heap' = heap
                /\ th' = [th EXCEPT ![t].pc = "idle", ![t].time = now]
    /\ mutex' = 0
    /\ UNCHANGED <<fvars, rvars, now, events, ccfg, user_cache, server_cache, static_cache,
                   user_timestamps, server_timestamps, inner, puts>>

\* set_user_data(k, data), set_server_data(k, data), the caller having built
\* data: with self.lock
CallSet(t) ==
    /\ Begin(t)
    /\ AcquireMutex(t)
    /\ \E dom \in Domains, k \in ccfg.keys, v \in ccfg.vals :
          /\ heap' = Append(heap, v)
          /\ th' = [th EXCEPT ![t] = [Idle EXCEPT !.pc = "locked", !.op = "set",
                                                  !.dom = dom, !.key = k,
                                                  !.data = Len(heap) + 1,
                                                  !.src = "set"]]
    /\ UNCHANGED <<fvars, rvars, now, ccfg, user_cache, server_cache, static_cache,
                   user_timestamps, server_timestamps, inner, puts>>

\* a set that never makes room
SetEvict_Never(t) ==
    /\ th[t].pc = "locked" /\ th[t].op = "set"
    /\ th' = [th EXCEPT ![t].pc = "insert", ![t].time = now]
    /\ UNCHANGED <<fvars, rvars, now, events, ccfg, mutex, static_cache, heap, inner, puts,
                   user_cache, server_cache, user_timestamps, server_timestamps>>

\* current_time = time.time(); if the cache is full, remove the oldest entries
SetEvict(t) ==
    /\ th[t].pc = "locked" /\ th[t].op = "set"
    /\ th' = [th EXCEPT ![t].pc = "insert", ![t].time = now]
    /\ LET dom == th[t].dom IN
       IF len(cache_of(dom)) >= MAX_CACHE_SIZE(dom)
       THEN SetMaps(dom, cleanup_old_data(cache_of(dom), timestamps_of(dom)))
       ELSE UNCHANGED <<user_cache, server_cache, user_timestamps, server_timestamps>>
    /\ UNCHANGED <<fvars, rvars, now, events, ccfg, mutex, static_cache, heap, inner, puts>>

\* self.*_cache[k] = data.copy(); self.*_timestamps[k] = current_time; release
SetInsert(t) ==
    /\ th[t].pc = "insert"
    /\ LET dom == th[t].dom
           k == th[t].key
       IN  /\ heap' = shallow_copy(th[t].data)
           /\ SetMaps(dom, [cache |-> setitem(cache_of(dom), k, Len(heap) + 1),
                            timestamps |-> setitem(timestamps_of(dom), k, th[t].time)])
           /\ puts' = [puts EXCEPT ![dom][k] =
                          <<[val |-> heap[th[t].data], time |-> th[t].time]>>]
    /\ th' = [th EXCEPT ![t].pc = "idle"]
    /\ mutex' = 0
    /\ UNCHANGED <<fvars, rvars, now, events, ccfg, static_cache, inner>>

\* invalidate_user(k), invalidate_server(k): with self.lock
CallInvalidate(t) ==
    /\ Begin(t)
    /\ AcquireMutex(t)
    /\ \E dom \in Domains, k \in ccfg.keys :
          th' = [th EXCEPT ![t] = [Idle EXCEPT !.pc = "locked", !.op = "invalidate",
                                               !.dom = dom, !.key = k]]
    /\ UNCHANGED <<fvars, rvars, now, ccfg, user_cache, server_cache, static_cache,
                   user_timestamps, server_timestamps, heap, inner, puts>>

\* an invalidate that forgets the timestamp map
Invalidate_ValueOnly(t) ==
    /\ th[t].pc = "locked" /\ th[t].op = "invalidate"
    /\ LET dom == th[t].dom
           k == th[t].key
       IN  /\ SetMaps(dom, [cache |-> pop(cache_of(dom), k),
                            timestamps |-> timestamps_of(dom)])
           /\ puts' = [puts EXCEPT ![dom][k] = <<>>]
    /\ th' = [th EXCEPT ![t].pc = "idle"]
    /\ mutex' = 0
    /\ UNCHANGED <<fvars, rvars, now, events, ccfg, static_cache, heap, inner>>

\* the two pops of invalidate_* and the release of the lock
Invalidate(t) ==
    /\ th[t].pc = "locked" /\ th[t].op = "invalidate"
    /\ LET dom == th[t].dom
           k == th[t].key
       IN  /\ SetMaps(dom, [cache |-> pop(cache_of(dom), k),
                            timestamps |-> pop(timestamps_of(dom), k)])
           /\ puts' = [puts EXCEPT ![dom][k] = <<>>]
    /\ th' = [th EXCEPT ![t].pc = "idle"]
    /\ mutex' = 0
    /\ UNCHANGED <<fvars, rvars, now, events, ccfg, static_cache, heap, inner>>

\* get_static_data(key): self.static_cache.get(key), without the lock
GetStatic(t) ==
    /\ Begin(t)
    /\ \E key \in StaticKeys :
          th' = [th EXCEPT ![t] = [Idle EXCEPT !.op = "static", !.name = key, !.got =
                     IF key \in DOMAIN static_cache THEN <<static_cache[key]>>
                     ELSE <<>>]]
    /\ UNCHANGED <<fvars, rvars, now, ccfg, user_cache, server_cache, static_cache,
                   user_timestamps, server_timestamps, mutex, heap, inner, puts>>

\* cleanup_expired(), called by background_cleanup every 300 s:
\* current_time = time.time(), before the lock is taken
CallSweep(t) ==
    /\ Begin(t)
    /\ th' = [th EXCEPT ![t] = [Idle EXCEPT !.pc = "sweep_wait", !.op = "sweep",
                                            !.time = now]]
    /\ UNCHANGED <<fvars, rvars, now, ccfg, user_cache, server_cache, static_cache,
                   user_timestamps, server_timestamps, mutex, heap, inner, puts>>

\* cleanup_expired: with self.lock
SweepLock(t) ==
    /\ th[t].pc = "sweep_wait"
    /\ AcquireMutex(t)
    /\ th' = [th EXCEPT ![t].pc = "sweeping"]
    /\ UNCHANGED <<fvars, rvars, now, events, ccfg, user_cache, server_cache, static_cache,
                   user_timestamps, server_timestamps, heap, inner, puts>>

\* a sweep that also drops the static data
CleanupExpired_DropsStatic(t) ==
    /\ th[t].pc = "sweeping"
    /\ user_cache' = pop_all(user_cache, expired(user_timestamps, th[t].time, USER_CACHE_TTL))
    /\ user_timestamps' =
           pop_all(user_timestamps, expired(user_timestamps, th[t].time, USER_CACHE_TTL))
    /\ server_cache' =
           pop_all(server_cache, expired(server_timestamps, th[t].time, SERVER_CACHE_TTL))
    /\ server_timestamps' =
           pop_all(server_timestamps,
                   expired(server_timestamps, th[t].time, SERVER_CACHE_TTL))
    /\ th' = [th EXCEPT ![t].pc = "idle"]
    /\ static_cache' = [tricks |-> <<>>, facts |-> <<>>]
    /\ mutex' = 0
    /\ UNCHANGED <<fvars, rvars, now, events, ccfg, heap, inner, puts>>

\* the body of cleanup_expired and the release of the lock
CleanupExpired(t) ==
    /\ th[t].pc = "sweeping"
    /\ LET expired_users == expired(user_timestamps, th[t].time, USER_CACHE_TTL)
           expired_servers == expired(server_timestamps, th[t].time, SERVER_CACHE_TTL)
       IN  /\ user_cache' = pop_all(user_cache, expired_users)
           /\ user_timestamps' = pop_all(user_timestamps, expired_users)
           /\ server_cache' = pop_all(server_cache, expired_servers)
           /\ server_timestamps' = pop_all(server_timestamps, expired_servers)
           /\ th' = [th EXCEPT ![t].pc = "idle",
                               ![t].count = len(expired_users) + len(expired_servers)]
    /\ mutex' = 0
    /\ UNCHANGED <<fvars, rvars, now, events, ccfg, static_cache, heap, inner, puts>>

\* hourly_deep_cleanup, every 3600 s, calls _cleanup_old_user_data() and
\* _cleanup_old_server_data() without taking the lock.  The first sorts the
\* timestamp map and picks users_to_remove ...
CallHourly(t) ==
    /\ Begin(t)
    /\ th' = [th EXCEPT ![t] = [Idle EXCEPT !.pc = "h_user_pop", !.op = "hourly",
                                            !.rem = to_remove(user_timestamps)]]
    /\ UNCHANGED <<fvars, rvars, now, ccfg, user_cache, server_cache, static_cache,
                   user_timestamps, server_timestamps, mutex, heap, inner, puts>>

\* ... and pops them from both maps
HourlyUserPop(t) ==
    /\ th[t].pc = "h_user_pop"
    /\ user_cache' = pop_all(user_cache, th[t].rem)
    /\ user_timestamps' = pop_all(user_timestamps, th[t].rem)
    /\ th' = [th EXCEPT ![t].pc = "h_server_sort", ![t].rem = <<>>]
    /\ UNCHANGED <<fvars, rvars, now, events, ccfg, server_cache, static_cache,
                   server_timestamps, mutex, heap, inner, puts>>

\* _cleanup_old_server_data: servers_to_remove ...
HourlyServerSort(t) ==
    /\ th[t].pc = "h_server_sort"
    /\ th' = [th EXCEPT ![t].pc = "h_server_pop",
                        ![t].rem = to_remove(server_timestamps)]
    /\ UNCHANGED <<fvars, rvars, now, events, ccfg, user_cache, server_cache, static_cache,
                   user_timestamps, server_timestamps, mutex, heap, inner, puts>>

\* ... and the pops
HourlyServerPop(t) ==
    /\ th[t].pc = "h_server_pop"
    /\ server_cache' = pop_all(server_cache, th[t].rem)
    /\ server_timestamps' = pop_all(server_timestamps, th[t].rem)
    /\ th' = [th EXCEPT ![t].pc = "idle", ![t].rem = <<>>]
    /\ UNCHANGED <<fvars, rvars, now, events, ccfg, user_cache, static_cache,
                   user_timestamps, mutex, heap, inner, puts>>

(***************************************************************************)
(* The callers and the clock.                                               *)
(***************************************************************************)
\* between two calls, a caller changes the object it holds at the top level
\* (user_data["points"] += points)
MutateTop(t) ==
    /\ Begin(t)
    /\ th[t].data # None
    /\ heap[th[t].data].top # "changed"
    /\ heap' = [heap EXCEPT ![th[t].data].top = "changed"]
    /\ UNCHANGED <<fvars, rvars, now, ccfg, user_cache, server_cache, static_cache,
                   user_timestamps, server_timestamps, mutex, inner, th, puts>>

\* ... or inside the nested object it holds
\* (user_data["cooldowns"][activity_type] = now)
MutateNested(t) ==
    /\ Begin(t)
    /\ th[t].data # None
    /\ inner[heap[th[t].data].ref] = "as set"
    /\ inner' = [inner EXCEPT ![heap[th[t].data].ref] = "changed"]
    /\ UNCHANGED <<fvars, rvars, now, ccfg, user_cache, server_cache, static_cache,
                   user_timestamps, server_timestamps, mutex, heap, th, puts>>

\* time passes: time.time() returns a later instant
Elapse ==
    /\ \E x \in ccfg.times : x > now /\ now' = x
    /\ UNCHANGED <<fvars, rvars, events, cvars>>

NextCache ==
    \/ \E t \in ccfg.threads : CallGet(t)
    \/ \E t \in ccfg.threads : GetData(t)
    \/ \E t \in ccfg.threads : CallSet(t)
    \/ \E t \in ccfg.threads : SetEvict(t)
    \/ \E t \in ccfg.threads : SetInsert(t)
    \/ \E t \in ccfg.threads : CallInvalidate(t)
    \/ \E t \in ccfg.threads : Invalidate(t)
    \/ \E t \in ccfg.threads : GetStatic(t)
    \/ \E t \in ccfg.threads : CallSweep(t)
    \/ \E t \in ccfg.threads : SweepLock(t)
    \/ \E t \in ccfg.threads : CleanupExpired(t)
    \/ \E t \in ccfg.threads : CallHourly(t)
    \/ \E t \in ccfg.threads : HourlyUserPop(t)
    \/ \E t \in ccfg.threads : HourlyServerSort(t)
    \/ \E t \in ccfg.threads : HourlyServerPop(t)
    \/ \E t \in ccfg.threads : MutateTop(t)
    \/ \E t \in ccfg.threads : MutateNested(t)
    \/ Elapse

(***************************************************************************)
(* The cache as earlier calls left it.  A warm user cache is at its      *)
(* capacity of 1,000 entries: user 1, set two seconds ago, and 999 other    *)
(* users (ids 101 to 1099), of whom the first 500 were set one second ago   *)
(* and the others just now.  A warm server cache holds 500 entries in the   *)
(* same way.  All the other entries share one object, WarmHeap[2].          *)
(***************************************************************************)
\* the objects of a warm cache: the record of user 1, the record every other
\* entry shares, and the record of server 1
WarmHeap ==
    <<[top |-> "user 1", ref |-> 1], [top |-> "other", ref |-> 0],
      [top |-> "server 1", ref |-> 2]>>

\* n entries: id 1 and the ids 101 .. 99 + n, those up to `split` set earlier
WarmCache(n, split, first) ==
    [cache |-> <<Entry(1, first), Block(101, 99 + n, 2)>>,
     timestamps |-> <<Entry(1, 0 - 2), Block(101, split, 0 - 1),
                      Block(split + 1, 99 + n, 0)>>,
     puts |-> <<[val |-> WarmHeap[first], time |-> 0 - 2]>>]
ColdCache == [cache |-> <<>>, timestamps |-> <<>>, puts |-> <<>>]

WarmUsers == WarmCache(MAX_USER_CACHE_SIZE, 600, 1)
WarmServers == WarmCache(MAX_SERVER_CACHE_SIZE, 300, 3)

CacheConf(n, m) ==
    [threads |-> 1..n, keys |-> {1, 2},
     vals |-> {[top |-> "a", ref |-> 3], [top |-> "b", ref |-> 4]},
     times |-> {USER_CACHE_TTL - 1, USER_CACHE_TTL, SERVER_CACHE_TTL},
     maxEvents |-> m]

\* a process that does not use the store
NoStore ==
    /\ conf = [procs |-> {}, docs |-> {}, garbage |-> {}, plat |-> "posix",
               maxEvents |-> 0]
    /\ InitCalls
    /\ lock = NoLock
    /\ file = NoFile
    /\ backups = {}
    /\ hist = NoHist

InitFoundCache(cfg) ==
    /\ NoStore
    /\ NoRanking
    /\ ccfg = cfg
    /\ static_cache \in {StaticMissing, StaticLoaded}
    /\ \E u \in {ColdCache, WarmUsers}, s \in {ColdCache, WarmServers} :
          /\ user_cache = u.cache
          /\ user_timestamps = u.timestamps
          /\ server_cache = s.cache
          /\ server_timestamps = s.timestamps
          /\ puts = [dom \in Domains |-> [k \in cfg.keys |->
                        IF k # 1 THEN <<>>
                        ELSE IF dom = "user" THEN u.puts ELSE s.puts]]
    /\ mutex = 0
    /\ heap = WarmHeap
    /\ inner = [r \in {0} \cup {WarmHeap[i].ref : i \in 1..Len(WarmHeap)}
                      \cup {v.ref : v \in cfg.vals} |-> "as set"]
    /\ th = [t \in cfg.threads |-> Idle]

\* the single thread of the event loop
InitCache == InitFoundCache(CacheConf(1, MaxCacheEvents))

\* several threads
InitThreads == InitFoundCache(CacheConf(NThreads, MaxThreadEvents))

SpecCache == InitCache /\ [][NextCache]_vars

SpecThreads == InitThreads /\ [][NextCache]_vars

(***************************************************************************)
(* The ranking caller.  Its handlers run on the event loop, each to its end *)
(* before the next starts, so a handler is one step.  A user's record is an *)
(* object whose top-level content is [points, rank] and whose nested object *)
(* is the "cooldowns" dict: activity -> <<time of the last award>>, <<>>    *)
(* for an activity it does not hold.                                        *)
(***************************************************************************)
\* self.point_values and self.cooldowns, for an activity that is rate
\* limited and one that is not
point_values == [message |-> 1, reaction_received |-> 3]
cooldowns == [message |-> 60]

\* self.rank_data[r]["points"]
rank_points ==
    <<0, 100, 250, 450, 700, 1000, 1400, 1900, 2500, 3200, 4000, 5000, 6200,
      7600, 9200>>

\* calculate_rank: the last rank of the table whose threshold is reached
calculate_rank(points) ==
    CHOOSE r \in 1..Len(rank_points) :
        /\ rank_points[r] <= points
        /\ r = Len(rank_points) \/ rank_points[r + 1] > points

\* get_rank_info(rank)["points"]
get_rank_info(rank) ==
    IF rank \in 1..Len(rank_points) THEN rank_points[rank] ELSE rank_points[1]

\* the state a handler works on
Ranking ==
    [heap |-> heap, inner |-> inner, cache |-> user_cache,
     timestamps |-> user_timestamps, puts |-> puts["user"],
     user_data |-> user_data]

\* bot_cache.get_user_data(k) at time t: the state after it and the object
\* it returns, a copy of the cached one or None
bot_get_user_data(s, k, t) ==
    IF is_cached(s.cache, s.timestamps, k, t, USER_CACHE_TTL)
    THEN [s |-> [s EXCEPT !.heap = Append(@, @[getitem(s.cache, k)])],
          obj |-> Len(s.heap) + 1]
    ELSE [s |-> s, obj |-> None]

\* bot_cache.set_user_data(k, object i) at time t
bot_set_user_data(s, k, i, t) ==
    LET m == IF len(s.cache) >= MAX_USER_CACHE_SIZE
             THEN cleanup_old_data(s.cache, s.timestamps)
             ELSE [cache |-> s.cache, timestamps |-> s.timestamps]
    IN  [s EXCEPT !.heap = Append(@, @[i]),
                  !.cache = setitem(m.cache, k, Len(s.heap) + 1),
                  !.timestamps = setitem(m.timestamps, k, t),
                  !.puts[k] = <<[val |-> s.heap[i], time |-> t]>>]

\* bot_cache.invalidate_user(k)
bot_invalidate_user(s, k) ==
    [s EXCEPT !.cache = pop(@, k), !.timestamps = pop(@, k), !.puts[k] = <<>>]

\* the record get_user_data creates for a user the document does not hold
new_record(k) == [top |-> [points |-> 0, rank |-> 1], ref |-> k]

\* RankingSystem.get_user_data(k): the cached copy on a hit; on a miss the
\* record of self.user_data, created if need be, after caching it
get_user_data(s, k, t) ==
    LET c == bot_get_user_data(s, k, t)
        s1 == IF s.user_data[k] # None THEN s
              ELSE [s EXCEPT !.heap = Append(@, new_record(k)),
                             !.user_data[k] = Len(s.heap) + 1]
    IN  IF c.obj # None
        THEN [s |-> c.s, obj |-> c.obj, hit |-> TRUE]
        ELSE [s |-> bot_set_user_data(s1, k, s1.user_data[k], t),
              obj |-> s1.user_data[k], hit |-> FALSE]

\* can_award_points(k, activity)
can_award_points(s, k, activity, t) ==
    IF activity \notin DOMAIN cooldowns
    THEN [s |-> s, ok |-> TRUE]
    ELSE LET g == get_user_data(s, k, t)
             last == g.s.inner[g.s.heap[g.obj].ref][activity]
         IN  [s |-> g.s,
              ok |-> last = <<>> \/ t - last[1] >= cooldowns[activity]]

\* what json.dump writes for self.user_data: every record by its content
document(s) ==
    [k \in DOMAIN s.user_data |->
        IF s.user_data[k] = None THEN <<>>
        ELSE <<[top |-> s.heap[s.user_data[k]].top,
                nested |-> s.inner[s.heap[s.user_data[k]].ref]]>>]

\* save_data(): safe_save(self.user_data)
save_data(s) == [prev |-> saved.last, last |-> document(s)]

\* the handler leaves state s behind
Becomes(s) ==
    /\ heap' = s.heap
    /\ inner' = s.inner
    /\ user_cache' = s.cache
    /\ user_timestamps' = s.timestamps
    /\ puts' = [puts EXCEPT !["user"] = s.puts]
    /\ user_data' = s.user_data

\* a handler of the ranking caller starts: one event of the behaviour
Handle == events < ccfg.maxEvents /\ events' = events + 1

\* the body of award_points once can_award_points has allowed the award
award(s, k, activity, t) ==
    LET g == get_user_data(s, k, t)
        i == g.obj
        points == g.s.heap[i].top.points + point_values[activity]
        s1 == [g.s EXCEPT !.heap[i].top =
                              [points |-> points, rank |-> calculate_rank(points)],
                          !.inner[g.s.heap[i].ref] =
                              IF activity \in DOMAIN cooldowns
                              THEN [@ EXCEPT ![activity] = <<t>>] ELSE @]
    IN  [s |-> bot_invalidate_user(s1, k), hit |-> g.hit]

\* award_points(k, activity)
AwardPoints(k, activity) ==
    /\ Handle
    /\ LET c == can_award_points(Ranking, k, activity, now)
           a == award(c.s, k, activity, now)
       IN  IF ~c.ok
           THEN /\ Becomes(c.s)
                /\ rcall' = [op |-> "award_points", key |-> k, ret |-> 0,
                             hit |-> FALSE]
                /\ UNCHANGED saved
           ELSE /\ Becomes(a.s)
                /\ rcall' = [op |-> "award_points", key |-> k,
                             ret |-> point_values[activity], hit |-> a.hit]
                /\ saved' = save_data(a.s)
    /\ UNCHANGED <<fvars, now, ccfg, server_cache, server_timestamps, static_cache,
                   mutex, th>>

\* set_rank(k, rank), for a rank of 1 to 15
SetRank(k, rank) ==
    /\ Handle
    /\ LET g == get_user_data(Ranking, k, now)
           s1 == [g.s EXCEPT !.heap[g.obj].top =
                                 [points |-> get_rank_info(rank), rank |-> rank]]
       IN  /\ Becomes(s1)
           /\ rcall' = [op |-> "set_rank", key |-> k, ret |-> 0, hit |-> g.hit]
           /\ saved' = save_data(s1)
    /\ UNCHANGED <<fvars, now, ccfg, server_cache, server_timestamps, static_cache,
                   mutex, th>>

\* rank_cmd: a lookup of the user's record
RankLookup(k) ==
    /\ Handle
    /\ LET g == get_user_data(Ranking, k, now)
       IN  /\ Becomes(g.s)
           /\ rcall' = [op |-> "rank_cmd", key |-> k, ret |-> 0, hit |-> g.hit]
    /\ UNCHANGED <<fvars, now, ccfg, server_cache, server_timestamps, static_cache,
                   mutex, th, saved>>

NextRanking ==
    \/ \E k \in ccfg.keys, activity \in DOMAIN point_values : AwardPoints(k, activity)
    \/ \E k \in ccfg.keys, rank \in ccfg.ranks : SetRank(k, rank)
    \/ \E k \in ccfg.keys : RankLookup(k)
    \/ Elapse

\* the callers of the ranking system: two users, the ranks an admin sets, and
\* the instants at which a cooldown and the TTL of the cache end
RankingConf ==
    [threads |-> {}, keys |-> {1, 2}, vals |-> {}, ranks |-> {2, 3},
     times |-> {cooldowns.message, USER_CACHE_TTL - 1, USER_CACHE_TTL},
     maxEvents |-> MaxRankEvents]

\* the records of the document load_data returned: none, or that of user 1,
\* one point short of rank 2
LoadedRecords == {<<>>, <<[top |-> [points |-> 99, rank |-> 1], ref |-> 1]>>}

\* RankingSystem.__init__ in a process whose cache is empty
InitRanking ==
    /\ NoStore
    /\ ccfg = RankingConf
    /\ user_cache = <<>>
    /\ server_cache = <<>>
    /\ user_timestamps = <<>>
    /\ server_timestamps = <<>>
    /\ static_cache = StaticMissing
    /\ mutex = 0
    /\ th = [t \in {} |-> Idle]
    /\ puts = [dom \in Domains |-> [k \in RankingConf.keys |-> <<>>]]
    /\ heap \in LoadedRecords
    /\ inner = [k \in RankingConf.keys |-> [a \in DOMAIN cooldowns |-> <<>>]]
    /\ user_data = [k \in RankingConf.keys |-> IF k <= Len(heap) THEN k ELSE None]
    /\ saved = [prev |-> document(Ranking), last |-> document(Ranking)]
    /\ rcall = NoCall

SpecRanking == InitRanking /\ [][NextRanking]_vars

(***************************************************************************)
(* Properties.                                                              *)
(***************************************************************************)
\* the steps of safe_save that write: the backup, the temporary file, the target
Writing == {"backup", "mkstemp", "write", "nt_unlink", "rename", "cleanup"}

\* process p is about to leave a safe_load / safe_save whose body ran
Returning(p, o) == pc[p] = "release" /\ op[p] = o

\* the document of the newest backup that parses and validates, {} when
\* there is none
NewestValidBackup ==
    LET good == {b \in backups : /\ b.data.kind = "json"
                                 /\ validate_json_data(b.data.val[1]).ok}
    IN IF good = {} THEN EmptyDoc
       ELSE (CHOOSE b \in good : \A c \in good \ {b} : Newer(b, c)).data.val[1]

\* C1: at every instant at most one process is inside the lock-protected
\* section (from the exclusive creation of the lock file to its removal in
\* the finally block), also when a holder stays inside for more than 30
\* seconds and another process treats its lock as stale.
C1_MutualExclusion ==
    \A p, q \in conf.procs :
        p # q => ~(pc[p] \in Body /\ pc[q] \in Body)

\* C2: when safe_save(d) has returned True and nothing has touched the store
\* since, the next safe_load() returns d.
C2_RoundTrip ==
    \A p \in conf.procs :
        Returning(p, "load") /\ hist.last # <<>> => ret[p] = RetDoc(hist.last[1])

\* C3: after a safe_save was interrupted between the write of its temporary
\* file and the rename, the next safe_load() that returns gives the document
\* the store file held when that save started.
C3_InterruptedSaveKeepsOld ==
    \A p \in conf.procs :
        /\ Returning(p, "load")
        /\ hist.interrupted # <<>>
        /\ Loadable(hist.interrupted[1])
        /\ hist.interrupted[1].size <= MAX_FILE
        => ret[p] = RetDoc(hist.interrupted[1].val[1])

\* C4: once the store file holds a valid document, every step of every
\* process (on the plain-rename path and on the remove-then-rename path of
\* os.name == 'nt') leaves a store file that exists and holds a valid document.
C4_StoreFileAlwaysValid ==
    [][(Loadable(file) /\ \E p \in conf.procs : pc'[p] # pc[p]) => Loadable(file')]_vars

\* C5: a safe_save of a valid document that returns False (an I/O error at
\* temp-file creation, write, fsync, target removal or rename) leaves the
\* store file as it was when the call started.
C5_FailedSaveUntouched ==
    \A p \in conf.procs :
        /\ Returning(p, "save")
        /\ ret[p] = RetBool(FALSE)
        /\ validate_json_data(arg[p]).ok
        => file = pre[p]

\* C6: a safe_save of a document that breaks a shape bound (root not an
\* object, depth 51, 10,001 keys, 10,001 items, a 100,001-character string)
\* changes neither the store file nor the backups in any of its steps, never
\* reaches the backup or the write, and returns False.
C6_InvalidSaveNoEffect ==
    [][\A p \in conf.procs :
          (/\ pc'[p] # pc[p]
           /\ op'[p] = "save"
           /\ (arg[p] \in BadDocs \/ arg'[p] \in BadDocs))
          => /\ file' = file
             /\ backups' = backups
             /\ pc'[p] \notin Writing
             /\ (pc[p] = "release" => ret[p] = RetBool(FALSE))]_vars

\* a safe_save of a document over a bound is about to return, with a store
\* file and a backup in place
C6_Witness ==
    \E p \in conf.procs :
        /\ Returning(p, "save")
        /\ arg[p] \in BadDocs
        /\ ret[p] = RetBool(FALSE)
        /\ file.kind = "json"
        /\ backups # {}

\* C7: when the store file exists but cannot be parsed, safe_load() returns
\* the newest backup that parses and validates, and {} only when no backup
\* validates.
C7_CorruptPrimaryRecovers ==
    \A p \in conf.procs :
        Returning(p, "load") /\ Unparseable(file) /\ file.size <= MAX_FILE
        => ret[p] = RetDoc(NewestValidBackup)

C9_InvalidPrimaryRecovers ==
    \A p \in conf.procs :
        /\ Returning(p, "load")
        /\ \/ file.kind = "json" /\ ~validate_json_data(file.val[1]).ok
           \/ file.kind # "none" /\ file.size > MAX_FILE
        => ret[p] = RetDoc(NewestValidBackup)

\* C10: of two concurrent safe_save calls, one never writes (backup,
\* temporary file, target) while the other is inside the lock-protected
\* section: the loser fails fast or writes after the winner's release.
C10_SavesNeverInterleave ==
    \A p, q \in conf.procs :
        p # q /\ op[p] = "save" /\ op[q] = "save"
        => ~(pc[p] \in Writing /\ pc[q] \in Body)

\* C11: as long as every safe_save that ended returned True, no process was
\* killed and nothing outside wrote the store, a safe_load that returns gives
\* {} or the whole argument of some safe_save, and never {} when a safe_save
\* had already returned True before the load began.
C11_LoadsSeeWholeSaves ==
    \A p \in conf.procs :
        Returning(p, "load") /\ hist.n >= 0 =>
            /\ ret[p].kind = "doc"
            /\ ret[p].val[1] \in {EmptyDoc} \cup conf.docs
            /\ began[p].saved => ret[p].val[1] # EmptyDoc

\* what ended p's last call was a kill of the process, not the call itself
Killed(r) == r.kind = "raise" /\ r.msg = "killed"

\* C12: a call that ends (lock busy, stale lock, lock file vanished,
\* validation error, corrupt files, I/O failure) ends by returning a boolean
\* or a document, never by raising into its caller.
C12_NoExceptionEscapes ==
    \A p \in conf.procs :
        pc[p] = "idle" /\ ~Killed(ret[p]) => ret[p].kind # "raise"

\* C13: the call that deletes a lock file older than 30 seconds goes on, in
\* the same call, to acquire the lock it has just freed and to run its save
\* or load.
C13_StaleLockRetriedInCall ==
    [][\A p \in conf.procs :
          (/\ pc[p] = "lock_unlink"
           /\ pc'[p] # pc[p]
           /\ lock.owner # 0
           /\ ~Killed(ret'[p]))
          => pc'[p] \in Body]_vars

\* C14: with one process calling at a time, a lock file left by a killed
\* holder and more than 30 seconds old is deleted by the first call that
\* finds it, which fails; the safe_save attempted next acquires the lock and
\* runs.
C14_CrashedHolderRecovery ==
    [][\A p \in conf.procs :
          /\ (/\ pc[p] = "lock_stat"
              /\ pc'[p] # pc[p]
              /\ ~Killed(ret'[p])
              /\ lock.owner # 0
              /\ now - lock.mtime > STALE_AFTER)
             => pc'[p] = "lock_unlink"
          /\ (pc[p] = "lock_unlink" /\ pc'[p] # pc[p] /\ ~Killed(ret'[p]))
             => lock' = NoLock /\ ret'[p].kind = "raise"
          /\ (/\ pc[p] = "idle"
              /\ pc'[p] # "idle"
              /\ ret[p].msg = StaleRemoved
              /\ op'[p] = "save")
             => pc'[p] = "validate" /\ lock'.owner = p]_vars

\* the safe_save attempted after the call that removed a dead holder's lock
\* is about to return True
C14_Witness ==
    \E p \in conf.procs :
        /\ Returning(p, "save")
        /\ began[p].retry
        /\ ret[p] = RetBool(TRUE)
        /\ lock.owner = p

\* C15: a call that finds a lock file of age at most 30 seconds fails at once
\* and changes neither the store file, nor the backups, nor that lock file;
\* and no step of a process that does not hold the lock removes a lock file
\* of age at most 30 seconds.
C15_BusyLockUntouched ==
    [][\A p \in conf.procs :
          (/\ pc'[p] # pc[p]
           /\ lock.owner # 0
           /\ ~(lock.owner = p /\ fd[p])
           /\ now - lock.mtime <= STALE_AFTER)
          => /\ lock' = lock
             /\ pc[p] = "lock_stat" =>
                   /\ pc'[p] = "idle"
                   /\ file' = file
                   /\ backups' = backups]_vars

\* C16: when a call that acquired the lock returns, by whatever path of its
\* body, no lock file exists.
C16_LockAlwaysReleased ==
    [][\A p \in conf.procs :
          (pc[p] \in Body /\ pc'[p] = "idle" /\ ~Killed(ret'[p]))
          => /\ lock' = NoLock
             /\ ret'[p].kind \in {"bool", "doc"}]_vars

\* a safe_save that acquired the lock has returned False, over the store
\* file an earlier safe_save wrote, and no lock file is left
C16_Witness ==
    \E p \in conf.procs :
        /\ pc[p] = "idle"
        /\ op[p] = "save" /\ ret[p] = RetBool(FALSE)
        /\ hist.n = -1 /\ hist.done = "yes"
        /\ file.kind = "json"
        /\ lock = NoLock

\* the steps a call has left at most, from each place in it
StepsLeft(l) ==
    CASE l = "idle" -> 0
      [] l \in {"release", "lock_unlink"} -> 1
      [] l \in {"lock_stat", "restore", "cleanup"} -> 2
      [] l \in {"read", "rename"} -> 3
      [] l \in {"getsize", "nt_unlink"} -> 4
      [] l \in {"exists", "write"} -> 5
      [] l = "mkstemp" -> 6
      [] l = "backup" -> 7
      [] l = "validate" -> 8

\* the next step of p's call
OwnStep(p) ==
    \/ LockStat(p) \/ LockUnlink(p) \/ Release(p)
    \/ SaveValidate(p) \/ CreateBackup(p) \/ Mkstemp(p) \/ WriteTemp(p)
    \/ NtUnlink(p) \/ Rename(p) \/ Cleanup(p)
    \/ LoadExists(p) \/ LoadGetsize(p) \/ LoadRead(p) \/ LoadRestore(p)

\* C17: wherever a call stands and whatever the other processes have done,
\* its next step can be taken, and every step it takes brings it nearer to
\* its end: no call waits for the lock, and none takes more than nine steps.
C17_CallsNeverWait ==
    [][\A p \in conf.procs :
          pc[p] # "idle" =>
             /\ ENABLED OwnStep(p)
             /\ pc'[p] # pc[p] => StepsLeft(pc'[p]) < StepsLeft(pc[p])]_vars

\* a call has failed as busy while another process is inside the lock
C17_Witness ==
    \E p, q \in conf.procs :
        /\ p # q
        /\ pc[q] \in Body /\ lock.owner = q
        /\ pc[p] = "idle"
        /\ ret[p] = Raised("File is locked by another process")

Min(a, b) == IF a < b THEN a ELSE b

\* C18: between calls, after n safe_save calls in a row that returned True on
\* a store whose file was absent at first, there are min(n - 1, 10) backups,
\* however little time passed between the saves.
C18_BackupRotation ==
    ((\A p \in conf.procs : pc[p] = "idle") /\ hist.n >= 1)
    => Cardinality(backups) = Min(hist.n - 1, KEEP_BACKUPS)

\* C19: at every step of safe_save that removes or replaces an existing
\* store file, a backup with the content being replaced exists.
C19_BackupBeforeOverwrite ==
    [][\A p \in conf.procs :
          (/\ pc[p] \in {"nt_unlink", "rename"}
           /\ pc'[p] # pc[p]
           /\ file.kind # "none"
           /\ file' # file)
          => \E b \in backups : b.data = file]_vars

\* C20: every safe_load that returns gives a document with an object root
\* that passes validate_json_data, whether it was read from the store file
\* or from a backup, and gives {} when there is no store file.
C20_LoadReturnsValidated ==
    \A p \in conf.procs :
        Returning(p, "load") =>
            /\ ret[p].kind = "doc"
            /\ validate_json_data(ret[p].val[1]).ok
            /\ file.kind = "none" => ret[p] = RetDoc(EmptyDoc)

\* a safe_load is about to return a document recovered from a backup, having
\* passed over a newer backup that parses but breaks a shape bound
C20_Witness ==
    \E p \in conf.procs :
        /\ Returning(p, "load")
        /\ file.kind = "badjson"
        /\ ret[p].val # <<EmptyDoc>>
        /\ \E b, c \in backups :
              /\ Newer(b, c)
              /\ b.data.kind = "json" /\ ~Loadable(b.data)
              /\ c.data = json_dump(ret[p].val[1])

(***************************************************************************)
(* The shape bounds of a document, read off the document itself: how far    *)
(* its deepest value lies below the root (the root is level 0, a scalar     *)
(* counts as a value), and every container and string inside it.            *)
(***************************************************************************)
RECURSIVE Depth(_)
Depth(v) ==
    CASE v.t = "nest" -> v.n + Depth(v.sub[1])
      [] v.t \in {"list", "dict"} -> IF v.n = 0 THEN 0 ELSE 1 + Depth(v.sub[1])
      [] OTHER -> 0

RECURSIVE Parts(_)
Parts(v) == {v} \cup (IF v.sub = <<>> THEN {} ELSE Parts(v.sub[1]))

\* the bounds the specification states
WithinStatedBounds(doc) ==
    /\ doc.t = "dict"
    /\ Depth(doc) <= MAX_DEPTH
    /\ \A x \in Parts(doc) :
          /\ x.t = "dict" => x.n <= MAX_KEYS
          /\ x.t = "list" => x.n <= MAX_LIST
          /\ x.t = "str" => x.n <= MAX_STR
    /\ DumpsLen(doc) <= MAX_TOTAL

\* every key of every object is at most 1,000 characters long
KeysWithinBound(doc) ==
    \A x \in Parts(doc) : (x.t = "dict" /\ x.n > 0) => x.klen <= MAX_KEY_LEN

\* the validation step of a save has run for p and the save goes on (TRUE) or
\* returns False (FALSE)
Validated(p) == pc[p] = "validate" /\ pc'[p] \in {"backup", "release"}

\* C21 (as stated): validation accepts a document if and only if its root is
\* an object, no value lies more than 50 levels below the root, no object
\* has more than 10,000 keys, no list more than 10,000 items, no string more
\* than 100,000 characters and its serialized size is at most 10 MB; no
\* document within these bounds is rejected for another reason.
C21_ValidatorExactBounds ==
    [][\A p \in conf.procs :
          Validated(p) => (pc'[p] = "backup" <=> WithinStatedBounds(arg[p]))]_vars

\* C21 (amended): validation accepts a document if and only if it is within
\* the stated bounds and, in addition, every key of every object is at most
\* 1,000 characters long.
C21_ValidatorBoundsWithKeys ==
    [][\A p \in conf.procs :
          Validated(p) =>
              (pc'[p] = "backup" <=>
                   (WithinStatedBounds(arg[p]) /\ KeysWithinBound(arg[p])))]_vars

\* a document within every stated bound, with one key of 1,001 characters,
\* has been rejected by the validation step of a save
C21_Witness ==
    \E p \in conf.procs :
        /\ Returning(p, "save")
        /\ arg[p] = DocKey1001
        /\ WithinStatedBounds(arg[p])
        /\ ret[p] = RetBool(FALSE)
        /\ file = pre[p]

(***************************************************************************)
(* Properties of the cache.                                                 *)
(***************************************************************************)
\* k has an entry in dom
Resident(dom, k) == contains(cache_of(dom), k) /\ contains(timestamps_of(dom), k)

\* thread t returns from the call `o` in this step
Returns(t, o) == th[t].pc # "idle" /\ th[t].op = o /\ th'[t].pc = "idle"

\* C22: after set(dom, k, v) at time t, a get(dom, k) at time t' returns v when
\* t' - t is less than the TTL of dom (300 s for users, 600 s for servers)
\* and the entry was neither invalidated nor evicted, and returns a miss when
\* t' - t is at least the TTL; a get in between does not extend the expiry.
\* "Returns v" is: returns an object with the top-level content of v and
\* holding the nested object of v.
C22_CacheTTL ==
    [][\A t \in ccfg.threads :
          Returns(t, "get") =>
              LET dom == th[t].dom
                  k == th[t].key
                  last == puts[dom][k]
              IN  last # <<>> =>
                    /\ now - last[1].time >= CACHE_TTL(dom) => th'[t].data = None
                    /\ (now - last[1].time < CACHE_TTL(dom) /\ Resident(dom, k)) =>
                          /\ th'[t].data # None
                          /\ heap'[th'[t].data] = last[1].val]_vars

\* a get of a user returned the value set 299 s before
C22_Witness ==
    \E t \in ccfg.threads :
        /\ th[t].pc = "idle" /\ th[t].op = "get" /\ th[t].dom = "user"
        /\ puts["user"][th[t].key] # <<>>
        /\ th[t].time - puts["user"][th[t].key][1].time = USER_CACHE_TTL - 1
        /\ th[t].data # None
        /\ heap[th[t].data] = puts["user"][th[t].key][1].val

\* what get(dom, k) returns when called now: <<>> for a miss, otherwise the
\* content the caller reads in the object returned
Lookup(dom, k) ==
    IF is_cached(cache_of(dom), timestamps_of(dom), k, now, CACHE_TTL(dom))
    THEN <<Deep(getitem(cache_of(dom), k))>>
    ELSE <<>>

\* in this step thread t changes the object it holds, which it came by as `how`
Mutates(t, how) ==
    /\ th[t].src = how
    /\ th' = th
    /\ \/ heap'[th[t].data] # heap[th[t].data]
       \/ inner'[heap[th[t].data].ref] # inner[heap[th[t].data].ref]

\* C23: changing a value returned by get(dom, k), at the top level or inside
\* a nested object it contains, never changes what a later get(dom, k)
\* returns.
C23_ReadIsolation ==
    [][\A t \in ccfg.threads :
          Mutates(t, "get") =>
              Lookup(th[t].dom, th[t].key)' = Lookup(th[t].dom, th[t].key)]_vars

\* C24: set(dom, k, v) stores a deep copy of v: changing v afterwards, at the
\* top level or inside a nested object, never changes what a later
\* get(dom, k) returns.
C24_WriteIsolation ==
    [][\A t \in ccfg.threads :
          Mutates(t, "set") =>
              \A dom \in Domains, k \in ccfg.keys : Lookup(dom, k)' = Lookup(dom, k)]_vars

\* C25: after any sequence of set, get, invalidate and sweep operations the
\* number of entries of a domain never exceeds its maximum: 1,000 users,
\* 500 servers.
C25_EvictionBound ==
    \A dom \in Domains :
        /\ len(cache_of(dom)) <= MAX_CACHE_SIZE(dom)
        /\ len(timestamps_of(dom)) <= MAX_CACHE_SIZE(dom)

\* a set of a new user into the full user cache has returned
C25_Witness ==
    \E t \in ccfg.threads :
        /\ th[t].pc = "idle" /\ th[t].op = "set" /\ th[t].dom = "user"
        /\ len(user_cache) = MAX_USER_CACHE_SIZE - MAX_USER_CACHE_SIZE \div 4 + 1

\* block b of the timestamp map `old` has a key that is not in `new`
LosesKey(b, new) == \E k \in b.lo..b.hi : ~contains(new, k)

\* C26: when set finds the domain at capacity with n entries, it removes
\* exactly floor(n/4) entries before inserting, every entry removed has a
\* timestamp no newer than that of every entry kept, and the entry being set
\* is resident when set returns.
C26_OldestQuartile ==
    [][\A t \in ccfg.threads :
          LET dom == th[t].dom
              n == len(cache_of(dom))
              old == timestamps_of(dom)
              new == timestamps_of(dom)'
          IN  /\ (th[t].pc = "locked" /\ th[t].op = "set" /\ th'[t].pc = "insert"
                   /\ n >= MAX_CACHE_SIZE(dom)) =>
                     /\ len(cache_of(dom)') = n - n \div 4
                     /\ len(new) = len(old) - n \div 4
                     /\ \A i \in 1..Len(old), j \in 1..Len(new) :
                           LosesKey(old[i], new) => old[i].v <= new[j].v
                     /\ \A j \in 1..Len(new) : \A k \in new[j].lo..new[j].hi :
                           contains(old, k) /\ getitem(old, k) = new[j].v
              /\ Returns(t, "set") =>
                     /\ contains(cache_of(dom)', th[t].key)
                     /\ contains(new, th[t].key)]_vars

\* a set of user 2 found the user cache full: user 1, the oldest entry, has
\* gone with 249 others, and user 2 is in
C26_Witness ==
    \E t \in ccfg.threads :
        /\ th[t].pc = "idle" /\ th[t].op = "set" /\ th[t].dom = "user"
        /\ th[t].key = 2
        /\ ~contains(user_cache, 1)
        /\ ~contains(user_cache, 349) /\ contains(user_cache, 350)
        /\ Resident("user", 2)

\* the keys of a dict
Keys(d) == UNION {d[i].lo..d[i].hi : i \in 1..Len(d)}

\* dict `new` is dict `old` without the key k
Without(old, new, k) ==
    /\ Keys(new) = Keys(old) \ {k}
    /\ \A i \in 1..Len(new) : \A k2 \in new[i].lo..new[i].hi :
          getitem(old, k2) = new[i].v

OtherDomain(dom) == IF dom = "user" THEN "server" ELSE "user"

\* C27: invalidate(dom, k) removes k from the value map and from the timestamp
\* map of dom, changes no other key of dom, nothing in the other domain and
\* nothing in the static data, and changes nothing at all when k is absent;
\* after it, get(dom, k) returns a miss until the next set(dom, k, _).
C27_Invalidate ==
    [][\A t \in ccfg.threads :
          LET dom == th[t].dom
              k == th[t].key
          IN  /\ Returns(t, "invalidate") =>
                    /\ Without(cache_of(dom), cache_of(dom)', k)
                    /\ Without(timestamps_of(dom), timestamps_of(dom)', k)
                    /\ cache_of(OtherDomain(dom))' = cache_of(OtherDomain(dom))
                    /\ timestamps_of(OtherDomain(dom))' =
                           timestamps_of(OtherDomain(dom))
                    /\ UNCHANGED <<static_cache, heap, inner>>
                    /\ ~Resident(dom, k) =>
                           UNCHANGED <<user_cache, user_timestamps, server_cache,
                                       server_timestamps>>
              /\ (Returns(t, "get") /\ puts[dom][k] = <<>>) => th'[t].data = None]_vars

\* user 1 has been invalidated in the full user cache, and nobody else
C27_Witness ==
    \E t \in ccfg.threads :
        /\ th[t].pc = "idle" /\ th[t].op = "invalidate" /\ th[t].dom = "user"
        /\ th[t].key = 1
        /\ ~contains(user_cache, 1) /\ ~contains(user_timestamps, 1)
        /\ len(user_cache) = MAX_USER_CACHE_SIZE - 1
        /\ len(user_timestamps) = MAX_USER_CACHE_SIZE - 1

\* C28: the static data loaded at construction is what get_static returns at
\* any later time, whatever sets, invalidates, sweeps, capacity evictions or
\* elapsed time occur in the other domains: no step changes the static data,
\* and get_static returns the entry of the key asked for (None for a key
\* that was never loaded).
C28_StaticImmutable ==
    [][/\ static_cache' = static_cache
       /\ \A t \in ccfg.threads :
             (th'[t] # th[t] /\ th'[t].op = "static") =>
                 th'[t].got = IF th'[t].name \in {"tricks", "facts"}
                              THEN <<static_cache[th'[t].name]>>
                              ELSE <<>>]_vars

\* 600 s after construction, every user and server entry swept, get_static
\* has returned the tricks loaded at construction
C28_Witness ==
    \E t \in ccfg.threads :
        /\ th[t].pc = "idle" /\ th[t].op = "static" /\ th[t].name = "tricks"
        /\ th[t].got = <<StaticLoaded.tricks>>
        /\ now = SERVER_CACHE_TTL
        /\ user_timestamps = <<>> /\ server_timestamps = <<>>
        /\ puts["user"][1] # <<>>

\* the sweep that returns in this step, having read the time `at`, has
\* removed from dom exactly the entries that were at least ttl old
SweptExactly(dom, at) ==
    LET old == timestamps_of(dom)
        new == timestamps_of(dom)'
    IN  /\ \A k \in Keys(old) :
              /\ contains(new, k) <=> at - getitem(old, k) < CACHE_TTL(dom)
              /\ contains(new, k) <=>
                     is_cached(cache_of(dom), old, k, at, CACHE_TTL(dom))
              /\ contains(new, k) => getitem(new, k) = getitem(old, k)
        /\ Keys(new) \subseteq Keys(old)
        /\ Keys(cache_of(dom)') = Keys(cache_of(dom)) \cap Keys(new)
        /\ \A k \in Keys(cache_of(dom)') :
              getitem(cache_of(dom)', k) = getitem(cache_of(dom), k)

\* the number of entries that leave dom in this step
Removed(dom) == Cardinality(Keys(timestamps_of(dom)) \ Keys(timestamps_of(dom)'))

\* C29: a sweep at time t removes from the user and server domains every
\* entry whose age is at least the TTL of its domain and no other entry, and
\* returns the number removed; the entries removed are those for which a
\* get at time t would have returned a miss, the entries kept those for
\* which it would have returned a hit.
C29_SweepExact ==
    [][\A t \in ccfg.threads :
          Returns(t, "sweep") =>
              /\ SweptExactly("user", th[t].time)
              /\ SweptExactly("server", th[t].time)
              /\ th'[t].count = Removed("user") + Removed("server")]_vars

\* a sweep at 299 s has removed from the full user cache the 501 entries set
\* 300 s before or earlier, and kept the 499 entries set 299 s before
C29_Witness ==
    \E t \in ccfg.threads :
        /\ th[t].pc = "idle" /\ th[t].op = "sweep"
        /\ th[t].time = USER_CACHE_TTL - 1
        /\ th[t].count = 501
        /\ len(user_cache) = 499
        /\ ~contains(user_cache, 600) /\ contains(user_cache, 601)

\* thread t takes this step
Acts(t) == th'[t] # th[t]

\* C30: every read or change of the maps of any domain, get_static, capacity
\* eviction and the evictions of the hourly maintenance task included, is
\* made by a thread that holds the mutex.
C30_SingleMutex ==
    [][\A t \in ccfg.threads :
          /\ (Acts(t) /\ <<user_cache, user_timestamps, server_cache,
                           server_timestamps>>' #
                         <<user_cache, user_timestamps, server_cache,
                           server_timestamps>>) => mutex = t
          /\ (Acts(t) /\ th'[t].pc \in {"h_user_pop", "h_server_pop"}) => mutex = t
          /\ (Acts(t) /\ th'[t].op = "static") => mutex = t]_vars


(***************************************************************************)
(* The store: what its calls remove and leave behind.                       *)
(***************************************************************************)
\* C33: a process removes only its own lock or a stale one.  In every
\* interleaving, a lock file deleted by a process, in the finally block or in
\* the stale-lock branch, is the lock file this process created, not replaced
\* since, or a lock file older than 30 seconds.
C33_RemovesOwnOrStaleLock ==
    [][\A p \in conf.procs :
          (/\ pc[p] \in {"release", "lock_unlink"}
           /\ pc'[p] = "idle"
           /\ lock.owner # 0
           /\ lock' = NoLock)
          => \/ lock.owner = p /\ fd[p]
             \/ now - lock.mtime > STALE_AFTER]_vars

Loaded(p) == pc[p] = "idle" /\ op[p] = "load" /\ ret[p].kind = "doc"

\* C34: load is read-only on data.  No step of a safe_load, on any path,
\* changes the store file or the backups; after a load recovered from a
\* backup the store file still holds the corrupt content, and loads with no
\* save between them return the same document.
C34_LoadIsReadOnly ==
    [][/\ file' = file
       /\ backups' = backups
       /\ \A p, q \in conf.procs : Loaded(p)' /\ Loaded(q)' => ret'[p] = ret'[q]]_vars

\* two loads have returned the same document, recovered from a backup, and
\* the store file is still the unparseable one
C34_Witness ==
    \E p, q \in conf.procs :
        /\ p # q
        /\ Loaded(p) /\ Loaded(q)
        /\ file.kind = "badjson"
        /\ ret[p] = ret[q]
        /\ ret[p] # RetDoc(EmptyDoc)
        /\ \E b \in backups : b.data = json_dump(ret[p].val[1])

(***************************************************************************)
(* The ranking caller and the cache.                                        *)
(***************************************************************************)
\* the points document doc holds for user k, 0 for a user it does not hold
\* (a new record starts at 0)
PointsIn(doc, k) == IF doc[k] = <<>> THEN 0 ELSE doc[k][1].top.points

\* C31: the cache never corrupts persisted data.  Every award_points call
\* that returns a positive amount p hands safe_save a document in which that
\* user's points are p higher than in the document persisted before, whether
\* the record was served from the cache or from the in-memory document.
C31_AwardIsPersisted ==
    (rcall.op = "award_points" /\ rcall.ret > 0)
        => PointsIn(saved.last, rcall.key)
               = PointsIn(saved.prev, rcall.key) + rcall.ret


\* C32: callers invalidate on every authoritative mutation.  award_points and
\* set_rank, which change a user's record and save it, invalidate or re-put
\* the user's cache entry, so at any later time a cache hit for the user
\* within the TTL returns a record equal to the authoritative one.
C32_HitsReturnAuthoritative ==
    \A k \in DOMAIN user_data :
        (/\ user_data[k] # None
         /\ is_cached(user_cache, user_timestamps, k, now, USER_CACHE_TTL))
            => Deep(getitem(user_cache, k)) = Deep(user_data[k])


(***************************************************************************)
(* The cache: what its operations leave alone.                              *)
(***************************************************************************)
\* C36: value map and timestamp map agree.  After every completed cache
\* operation (put, get, invalidate, sweep, capacity eviction), that is
\* whenever no call is running, the keys of each domain's value map are the
\* keys of its timestamp map.
C36_MapsAgree ==
    (\A t \in ccfg.threads : th[t].pc = "idle")
        => \A dom \in Domains : Keys(cache_of(dom)) = Keys(timestamps_of(dom))

\* a put into the full server cache has returned: the oldest quarter has left
\* both maps and the new key is in both
C36_Witness ==
    \E t \in ccfg.threads :
        /\ th[t].pc = "idle" /\ th[t].op = "set" /\ th[t].dom = "server"
        /\ th[t].key = 2
        /\ Resident("server", 2)
        /\ ~Resident("server", 1)
        /\ len(server_cache) < MAX_SERVER_CACHE_SIZE
        /\ Keys(server_cache) = Keys(server_timestamps)


\* C37: get changes nothing.  No step of get(domain, k), hit or miss, changes
\* a value map or a timestamp map: the timestamp of the entry is not
\* refreshed and an expired entry is not deleted, so it stays resident and
\* counts toward the capacity.
C37_GetChangesNothing ==
    [][\A t \in ccfg.threads :
          (th'[t] # th[t] /\ th'[t].op = "get")
          => UNCHANGED <<user_cache, server_cache, user_timestamps,
                         server_timestamps>>]_vars

\* a get of user 1 has missed on an entry older than the TTL, which is still
\* resident in a user cache that stands at its capacity
C37_Witness ==
    \E t \in ccfg.threads :
        /\ th[t].pc = "idle" /\ th[t].op = "get" /\ th[t].dom = "user"
        /\ th[t].key = 1
        /\ th[t].data = None
        /\ Resident("user", 1)
        /\ now - getitem(user_timestamps, 1) >= USER_CACHE_TTL
        /\ len(user_cache) = MAX_USER_CACHE_SIZE


\* thread t is in the invalidate of a key of block b of domain dom
Invalidating(t, dom, b) ==
    /\ th[t].op = "invalidate" /\ th[t].dom = dom
    /\ b.lo <= th[t].key /\ th[t].key <= b.hi

\* thread t is in a put into domain dom, which is at capacity
Evicting(t, dom) ==
    /\ th[t].op = "set" /\ th[t].dom = dom
    /\ len(cache_of(dom)) >= MAX_CACHE_SIZE(dom)

\* C38: unexpired entries are dropped only by invalidate or by capacity
\* eviction.  A step that removes from a domain an entry younger than the
\* domain's TTL is the invalidate of its key or the eviction of a put that
\* found the domain at capacity; the background maintenance tasks remove no
\* unexpired entry.
C38_UnexpiredKept ==
    [][\A dom \in Domains : \A i \in 1..Len(timestamps_of(dom)) :
          LET b == timestamps_of(dom)[i] IN
          (/\ now - b.v < CACHE_TTL(dom)
           /\ LosesKey(b, timestamps_of(dom)'))
          => \E t \in ccfg.threads :
                /\ th'[t] # th[t]
                /\ Invalidating(t, dom, b) \/ Evicting(t, dom)]_vars

=============================================================================
